---------------------------- MODULE Spec2Model ----------------------------
(***************************************************************************)
(* Model of test4_check.py: a constant-velocity Kalman filter (CVFilter),  *)
(* the grouping of measurements by time, the main filter loop, and the     *)
(* clustering / hypothesis / probability / association stage.              *)
(*                                                                         *)
(* Real numbers of the filter are modelled exactly, as reduced fractions   *)
(* <<numerator, denominator>>.  Probabilities are modelled in the log      *)
(* domain (see the section on calculate_probabilities).                    *)
(***************************************************************************)
EXTENDS Integers, Sequences, FiniteSets

VARIABLES
    pc,               \* position of the running function
    measurements,     \* main: list of (x, y, z, mt) read from the CSV file
    tracks,           \* main: the groups; association stage: the track positions
    reports,          \* main: positions of the current group; association stage: the reports
    group_idx,        \* main: index of the group being processed (1-based)
    rep_idx,          \* main: index of the report of the group being processed (1-based)
    track_states,     \* main: states emitted for the current group
    updated_states,   \* main: track_states of the finished groups
    kalman_filter,    \* main: the one CVFilter object
    dt,               \* predict_step: the dt it last computed
    calls,            \* CVFilter methods called for the report being processed
    clusters,         \* association stage: list of clusters (lists of track indices, 0-based)
    rpt,              \* association stage: index of the report of the clustering loop (1-based)
    cl,               \* association stage: index of the cluster of the hypothesis loop (1-based)
    hypotheses,       \* association stage: accepted hypotheses
    probabilities,    \* association stage: result of calculate_probabilities
    max_associations, \* association stage: result of find_max_associations
    max_probs         \* association stage: result of find_max_associations

vars == <<pc, measurements, tracks, reports, group_idx, rep_idx, track_states,
          updated_states, kalman_filter, dt, calls, clusters, rpt, cl,
          hypotheses, probabilities, max_associations, max_probs>>

mainVars == <<measurements, group_idx, rep_idx, track_states, updated_states,
              kalman_filter, dt, calls>>

assocVars == <<clusters, rpt, cl, hypotheses, probabilities, max_associations,
               max_probs>>

-----------------------------------------------------------------------------
(* Bounds of the model. *)

MaxMeas == 3        \* main: at most this many measurements in the file
MaxTracks == 2      \* association stage: at most this many tracks
MaxReports == 3     \* association stage: at most this many reports
MaxHyps == 2        \* scoring stage called directly: at most this many hypotheses

-----------------------------------------------------------------------------
(* Exact rational arithmetic: <<n, d>> with d > 0 and gcd(n, d) = 1. *)

Abs(x) == IF x < 0 THEN -x ELSE x

RECURSIVE GCD(_, _)
GCD(a, b) == IF b = 0 THEN a ELSE GCD(b, a % b)

Zero == <<0, 1>>
One == <<1, 1>>
Rat(n) == <<n, 1>>

RNorm(n, d) ==
    IF n = 0 THEN Zero
    ELSE LET g == GCD(Abs(n), Abs(d))
             s == IF d < 0 THEN -1 ELSE 1
         IN  <<s * (n \div g), s * (d \div g)>>

RNeg(a) == <<-a[1], a[2]>>

RAdd(a, b) ==
    IF a[1] = 0 THEN b
    ELSE IF b[1] = 0 THEN a
    ELSE LET g == GCD(a[2], b[2])
         IN  RNorm(a[1] * (b[2] \div g) + b[1] * (a[2] \div g), (a[2] \div g) * b[2])

RSub(a, b) == RAdd(a, RNeg(b))

RMul(a, b) ==
    IF a[1] = 0 \/ b[1] = 0 THEN Zero
    ELSE LET g1 == GCD(Abs(a[1]), b[2])
             g2 == GCD(Abs(b[1]), a[2])
         IN  <<(a[1] \div g1) * (b[1] \div g2), (a[2] \div g2) * (b[2] \div g1)>>

RInv(a) == IF a[1] < 0 THEN <<-a[2], -a[1]>> ELSE <<a[2], a[1]>>

RDiv(a, b) == RMul(a, RInv(b))

RLess(a, b) == a[1] * b[2] < b[1] * a[2]

-----------------------------------------------------------------------------
(* Matrices: sequences of rows of rationals (numpy arrays of floats). *)

Rows(A) == Len(A)
Cols(A) == Len(A[1])

\* The matrix with the given rows, as a tuple of tuples: every entry is computed
\* once, when the matrix is built (an array holds values, not expressions).
Array(rows) == [i \in 1..Len(rows) |-> rows[i] \o <<>>] \o <<>>

\* np.eye(n, m)
Eye(n, m) == Array([i \in 1..n |-> [j \in 1..m |-> IF i = j THEN One ELSE Zero]])

\* np.zeros((n, m))
Zeros(n, m) == Array([i \in 1..n |-> [j \in 1..m |-> Zero]])

RECURSIVE DotSum(_, _, _, _, _)
DotSum(A, B, i, j, k) ==
    IF k = 0 THEN Zero
    ELSE RAdd(DotSum(A, B, i, j, k - 1), RMul(A[i][k], B[k][j]))

\* np.dot(A, B)
Dot(A, B) ==
    Array([i \in 1..Rows(A) |-> [j \in 1..Cols(B) |-> DotSum(A, B, i, j, Cols(A))]])

\* A.T
Transpose(A) == Array([j \in 1..Cols(A) |-> [i \in 1..Rows(A) |-> A[i][j]]])

MatAdd(A, B) ==
    Array([i \in 1..Rows(A) |-> [j \in 1..Cols(A) |-> RAdd(A[i][j], B[i][j])]])
MatSub(A, B) ==
    Array([i \in 1..Rows(A) |-> [j \in 1..Cols(A) |-> RSub(A[i][j], B[i][j])]])
MatScale(A, c) ==
    Array([i \in 1..Rows(A) |-> [j \in 1..Cols(A) |-> RMul(A[i][j], c)]])

\* One column of Gauss-Jordan elimination on the augmented matrix M = [S | I];
\* <<>> when no pivot exists (S is singular).
RECURSIVE GaussJordan(_, _, _)
GaussJordan(M, c, n) ==
    IF c > n THEN M
    ELSE LET cand == {r \in c..n : M[r][c][1] # 0}
         IN  IF cand = {} THEN <<>>
             ELSE LET p == CHOOSE r \in cand : \A q \in cand : r <= q
                      swapped == [M EXCEPT ![c] = M[p], ![p] = M[c]]
                      piv == swapped[c][c]
                      prow == [j \in 1..(2 * n) |-> RDiv(swapped[c][j], piv)] \o <<>>
                      elim == Array([r \in 1..n |->
                                 IF r = c THEN prow
                                 ELSE [j \in 1..(2 * n) |->
                                         RSub(swapped[r][j], RMul(swapped[r][c], prow[j]))]])
                  IN  GaussJordan(elim, c + 1, n)

\* np.linalg.inv(S); <<>> stands for the LinAlgError raised on a singular matrix.
MatInv(S) ==
    LET n == Rows(S)
        aug == Array([i \in 1..n |-> [j \in 1..(2 * n) |->
                   IF j <= n THEN S[i][j] ELSE IF j - n = i THEN One ELSE Zero]])
        res == GaussJordan(aug, 1, n)
    IN  IF res = <<>> THEN <<>>
        ELSE Array([i \in 1..n |-> [j \in 1..n |-> res[i][j + n]]])

-----------------------------------------------------------------------------
(* class CVFilter *)

plant_noise == 20

\* self.H = np.eye(3, 6)
H == Eye(3, 6)

\* self.R = np.eye(3)
R == Eye(3, 3)

\* CVFilter.__init__
CVFilter ==
    [Sf |-> Zeros(6, 1), Pf |-> Eye(6, 6), Sp |-> Zeros(6, 1),
     Meas_Time |-> 0, Z |-> Zeros(3, 1)]

\* The column vector np.array([[v1], [v2], ...]) of a tuple of integers.
Column(v) == Array([i \in 1..Len(v) |-> <<Rat(v[i])>>])

initialize_filter_state(self, x, y, z, vx, vy, vz, time) ==
    [self EXCEPT !.Sf = Column(<<x, y, z, vx, vy, vz>>), !.Meas_Time = time]

initialize_measurement_for_filtering(self, x, y, z, mt) ==
    [self EXCEPT !.Z = Column(<<x, y, z>>), !.Meas_Time = mt]

\* dt = current_time - self.Meas_Time
predict_dt(self, current_time) == current_time - self.Meas_Time

\* Phi = np.eye(6); Phi[0, 3] = Phi[1, 4] = Phi[2, 5] = dt
PhiOf(d) ==
    Array([i \in 1..6 |-> [j \in 1..6 |->
        IF i = j THEN One ELSE IF i <= 3 /\ j = i + 3 THEN Rat(d) ELSE Zero]])

predict_step(self, current_time) ==
    LET d == predict_dt(self, current_time)
        Phi == PhiOf(d)
        Q == MatScale(Eye(6, 6), Rat(plant_noise))
    IN  [self EXCEPT !.Sp = Dot(Phi, self.Sf),
                     !.Pf = MatAdd(Dot(Dot(Phi, self.Pf), Transpose(Phi)), Q)]

\* S = H Pf H^T + R, the innovation covariance of update_step
InnovationCov(self) == MatAdd(Dot(H, Dot(self.Pf, Transpose(H))), R)

\* np.linalg.inv(S) of update_step raises LinAlgError (S is singular)
update_raises(self) == MatInv(InnovationCov(self)) = <<>>

update_step(self) ==
    LET Inn == MatSub(self.Z, Dot(H, self.Sf))
        S == InnovationCov(self)
        K == Dot(Dot(self.Pf, Transpose(H)), MatInv(S))
    IN  [self EXCEPT !.Sf = MatAdd(self.Sf, Dot(K, Inn)),
                     !.Pf = Dot(MatSub(Eye(6, 6), Dot(K, H)), self.Pf)]

-----------------------------------------------------------------------------
(* group_measurements_into_tracks *)

group_window == 50

\* abs(mt - mt_base) < 50
\* (faulty variant of WithinWindow: <= for <, for the sensitivity of C8)
WithinWindow_Inclusive(mt, mt_base) == Abs(mt - mt_base) <= group_window
WithinWindow(mt, mt_base) == Abs(mt - mt_base) < group_window

\* The inner loop over j: <<indices of the track, used_indices>>.
RECURSIVE InnerLoop(_, _, _, _, _)
InnerLoop(ms, j, mt_base, track, used) ==
    IF j > Len(ms) THEN <<track, used>>
    ELSE IF j \in used THEN InnerLoop(ms, j + 1, mt_base, track, used)
    ELSE IF WithinWindow(ms[j][4], mt_base)
         THEN InnerLoop(ms, j + 1, mt_base, Append(track, j), used \cup {j})
         ELSE InnerLoop(ms, j + 1, mt_base, track, used)

\* The outer loop over i: the list of the tracks' index lists.
RECURSIVE OuterLoop(_, _, _, _)
OuterLoop(ms, i, trks, used) ==
    IF i > Len(ms) THEN trks
    ELSE IF i \in used THEN OuterLoop(ms, i + 1, trks, used)
    ELSE LET r == InnerLoop(ms, 1, ms[i][4], <<i>>, used \cup {i})
         IN  OuterLoop(ms, i + 1, Append(trks, r[1]), r[2])

\* For every track, the (1-based) indices of the measurements put in it, in order.
group_indices(ms) == OuterLoop(ms, 1, <<>>, {})

group_measurements_into_tracks(ms) ==
    LET gi == group_indices(ms)
    IN  [g \in 1..Len(gi) |-> [k \in 1..Len(gi[g]) |-> ms[gi[g][k]]]]

-----------------------------------------------------------------------------
(* main *)

\* The (x, y, z, mt) rows a file may hold: times 0 and 10 are within the window of
\* each other, 10 and 60 are exactly the window apart, 0 and 60 are farther.
MeasPositions == {<<0, 0, 0>>, <<0, 10, 0>>}
MeasTimes == {0, 10, 60}
MeasRecords == {<<p[1], p[2], p[3], t>> : p \in MeasPositions, t \in MeasTimes}

SeqsUpTo(S, n) == UNION {[1..m -> S] : m \in 0..n}

InitAssocIdle ==
    /\ clusters = <<>>
    /\ rpt = 0
    /\ cl = 0
    /\ hypotheses = <<>>
    /\ probabilities = <<>>
    /\ max_associations = <<>>
    /\ max_probs = <<>>

InitMain ==
    /\ pc = "start"
    /\ measurements \in SeqsUpTo(MeasRecords, MaxMeas)
    /\ tracks = <<>>
    /\ reports = <<>>
    /\ group_idx = 0
    /\ rep_idx = 0
    /\ track_states = <<>>
    /\ updated_states = <<>>
    /\ kalman_filter = CVFilter
    /\ dt = 0
    /\ calls = <<>>
    /\ InitAssocIdle

\* if not measurements: return
NoMeasurements ==
    /\ pc = "start"
    /\ measurements = <<>>
    /\ pc' = "returned"
    /\ UNCHANGED <<tracks, reports>>
    /\ UNCHANGED mainVars
    /\ UNCHANGED assocVars

\* tracks = group_measurements_into_tracks(measurements); updated_states = []
GroupMeasurements ==
    /\ pc = "start"
    /\ measurements # <<>>
    /\ tracks' = group_measurements_into_tracks(measurements)
    /\ updated_states' = <<>>
    /\ group_idx' = 1
    /\ pc' = "group"
    /\ UNCHANGED <<measurements, reports, rep_idx, track_states, kalman_filter, dt, calls>>
    /\ UNCHANGED assocVars

\* for group_idx, track_group in enumerate(tracks): track_states = []; reports = []
GroupBegin ==
    /\ pc = "group"
    /\ group_idx <= Len(tracks)
    /\ track_states' = <<>>
    /\ reports' = <<>>
    /\ rep_idx' = 1
    /\ calls' = <<>>
    /\ pc' = "report"
    /\ UNCHANGED <<measurements, tracks, group_idx, updated_states, kalman_filter, dt>>
    /\ UNCHANGED assocVars

\* The report (x, y, z, mt) of the loop over track_group.
CurrentReport == tracks[group_idx][rep_idx]

\* if len(track_states) == 0
\* (faulty variant of IsFirstReport: track_states never reset, for the sensitivity of C10)
IsFirstReport_NotResetPerGroup(ts) == Len(ts) = 0 /\ Len(updated_states) = 0
IsFirstReport(ts) == Len(ts) = 0

\* kalman_filter.initialize_filter_state(x, y, z, 0, 0, 0, mt)
ReportInitialize ==
    /\ pc = "report"
    /\ rep_idx <= Len(tracks[group_idx])
    /\ IsFirstReport(track_states)
    /\ LET m == CurrentReport
       IN  kalman_filter' =
               initialize_filter_state(kalman_filter, m[1], m[2], m[3], 0, 0, 0, m[4])
    /\ calls' = <<"initialize_filter_state">>
    /\ pc' = "emit"
    /\ UNCHANGED <<measurements, tracks, reports, group_idx, rep_idx, track_states,
                   updated_states, dt>>
    /\ UNCHANGED assocVars

\* kalman_filter.initialize_measurement_for_filtering(x, y, z, mt)
ReportMeasurement ==
    /\ pc = "report"
    /\ rep_idx <= Len(tracks[group_idx])
    /\ ~IsFirstReport(track_states)
    /\ LET m == CurrentReport
       IN  kalman_filter' =
               initialize_measurement_for_filtering(kalman_filter, m[1], m[2], m[3], m[4])
    /\ calls' = <<"initialize_measurement_for_filtering">>
    /\ pc' = "predict"
    /\ UNCHANGED <<measurements, tracks, reports, group_idx, rep_idx, track_states,
                   updated_states, dt>>
    /\ UNCHANGED assocVars

\* kalman_filter.predict_step(mt)
PredictStep ==
    /\ pc = "predict"
    /\ dt' = predict_dt(kalman_filter, CurrentReport[4])
    /\ kalman_filter' = predict_step(kalman_filter, CurrentReport[4])
    /\ calls' = Append(calls, "predict_step")
    /\ pc' = "update"
    /\ UNCHANGED <<measurements, tracks, reports, group_idx, rep_idx, track_states,
                   updated_states>>
    /\ UNCHANGED assocVars

\* kalman_filter.update_step()
UpdateStep ==
    /\ pc = "update"
    /\ IF update_raises(kalman_filter)
       THEN pc' = "LinAlgError" /\ UNCHANGED kalman_filter
       ELSE pc' = "emit" /\ kalman_filter' = update_step(kalman_filter)
    /\ calls' = Append(calls, "update_step")
    /\ UNCHANGED <<measurements, tracks, reports, group_idx, rep_idx, track_states,
                   updated_states, dt>>
    /\ UNCHANGED assocVars

\* track_states.append(kalman_filter.Sf.copy()); reports.append([x, y, z])
EmitState ==
    /\ pc = "emit"
    /\ track_states' = Append(track_states, kalman_filter.Sf)
    /\ reports' = Append(reports, SubSeq(CurrentReport, 1, 3))
    /\ rep_idx' = rep_idx + 1
    /\ pc' = "report"
    /\ UNCHANGED <<measurements, tracks, group_idx, updated_states, kalman_filter, dt, calls>>
    /\ UNCHANGED assocVars

\* updated_states.append(track_states)
GroupEnd ==
    /\ pc = "report"
    /\ rep_idx > Len(tracks[group_idx])
    /\ updated_states' = Append(updated_states, track_states)
    /\ group_idx' = group_idx + 1
    /\ pc' = "group"
    /\ UNCHANGED <<measurements, tracks, reports, rep_idx, track_states, kalman_filter,
                   dt, calls>>
    /\ UNCHANGED assocVars

\* perform_clustering_hypothesis_association(tracks, reports, cov_inv) as main calls
\* it: tracks is a list of lists of tuples and every report is a list, so the first
\* "track - report" of the clustering loop raises TypeError.
CallAssociation ==
    /\ pc = "group"
    /\ group_idx > Len(tracks)
    /\ pc' = "TypeError"
    /\ UNCHANGED <<tracks, reports>>
    /\ UNCHANGED mainVars
    /\ UNCHANGED assocVars

NextMain ==
    \/ NoMeasurements
    \/ GroupMeasurements
    \/ GroupBegin
    \/ ReportInitialize
    \/ ReportMeasurement
    \/ PredictStep
    \/ UpdateStep
    \/ EmitState
    \/ GroupEnd
    \/ CallAssociation

SpecMain == InitMain /\ [][NextMain]_vars

-----------------------------------------------------------------------------
(* The association stage: perform_clustering_hypothesis_association(tracks,   *)
(* reports, cov_inv) on arrays of 3-dimensional positions.  Track and report  *)
(* indices are 0-based as in the source; tracks[i + 1] is the source's        *)
(* tracks[i].                                                                 *)

state_dim == 3

\* chi2.ppf(0.95, df=3) = 7.8147..., in thousandths (rounded up).  The distances
\* compared with it are square roots of integers, and no integer lies between
\* 7.8147^2 and 7.815^2, so the rounding changes no comparison.
chi2_threshold_milli == 7815

\* cov_inv = np.linalg.inv(np.eye(state_dim))
cov_inv == [i \in 1..state_dim |-> [j \in 1..state_dim |-> IF i = j THEN 1 ELSE 0]]

RECURSIVE SumTo(_, _)
SumTo(f, n) == IF n = 0 THEN 0 ELSE SumTo(f, n - 1) + f[n]

\* np.linalg.norm(track - report) ** 2
NormSq(track, report) ==
    SumTo([i \in 1..Len(track) |-> (track[i] - report[i]) * (track[i] - report[i])],
          Len(track))

\* distances[min_distance_idx] < chi2_threshold, for a distance sqrt(d2)
BelowGate(d2) == d2 * 1000000 < chi2_threshold_milli * chi2_threshold_milli

\* np.argmin(distances): the first (0-based) index of a least distance
ArgMin(distances) ==
    (CHOOSE i \in 1..Len(distances) :
        /\ \A j \in 1..Len(distances) : distances[i] <= distances[j]
        /\ \A j \in 1..(i - 1) : distances[j] > distances[i]) - 1

\* mahalanobis_distance(x, y, cov_inv) ** 2 = delta . cov_inv . delta, delta = y[:3] - x[:3]
mahalanobis_sq(x, y, cov) ==
    LET delta == [i \in 1..3 |-> y[i] - x[i]]
        row == [j \in 1..3 |-> SumTo([i \in 1..3 |-> delta[i] * cov[i][j]], 3)]
    IN  SumTo([j \in 1..3 |-> row[j] * delta[j]], 3)

RECURSIVE Pow(_, _)
Pow(b, e) == IF e = 0 THEN 1 ELSE b * Pow(b, e - 1)

\* is_valid_hypothesis
\* (faulty variant: without "and len(non_zero_hypothesis) > 0", for the sensitivity of C1)
is_valid_hypothesis_NoEmptyCheck(hypothesis) ==
    LET non_zero == SelectSeq([i \in 1..Len(hypothesis) |-> hypothesis[i][2]],
                              LAMBDA v : v # -1)
    IN  Len(non_zero) = Cardinality({non_zero[i] : i \in 1..Len(non_zero)})
is_valid_hypothesis(hypothesis) ==
    LET non_zero == SelectSeq([i \in 1..Len(hypothesis) |-> hypothesis[i][2]],
                              LAMBDA v : v # -1)
    IN  /\ Len(non_zero) = Cardinality({non_zero[i] : i \in 1..Len(non_zero)})
        /\ Len(non_zero) > 0

\* The hypothesis built for one value of count: for track_idx in cluster:
\* report_idx = (count // (base ** track_idx)) % base; (track_idx, report_idx - 1)
hypothesis_of(cluster, count, base) ==
    [k \in 1..Len(cluster) |->
        <<cluster[k], ((count \div Pow(base, cluster[k])) % base) - 1>>]

\* for count in range(base ** num_tracks): the valid hypotheses, in order
RECURSIVE CountLoop(_, _, _, _, _)
CountLoop(cluster, count, limit, base, acc) ==
    IF count >= limit THEN acc
    ELSE LET hypothesis == hypothesis_of(cluster, count, base)
         IN  CountLoop(cluster, count + 1, limit, base,
                       IF is_valid_hypothesis(hypothesis)
                       THEN Append(acc, hypothesis) ELSE acc)

cluster_hypotheses(cluster, num_reports) ==
    LET num_tracks == Len(cluster)
        base == num_reports + 1
    IN  CountLoop(cluster, 0, Pow(base, num_tracks), base, <<>>)

-----------------------------------------------------------------------------
(* ------------------------------------------------------------------------- *)
(* Natural numbers of any size, for the 53-bit significands of float64: a    *)
(* sequence of limbs in base 2^14, least significant first, the last limb    *)
(* not zero; <<>> is 0.  Products of two limbs stay below 2^31.              *)
(* ------------------------------------------------------------------------- *)

LimbBits == 14
Base == 16384
Pow2 == <<1, 2, 4, 8, 16, 32, 64, 128, 256, 512, 1024, 2048, 4096, 8192>>

Limb(a, i) == IF i >= 1 /\ i <= Len(a) THEN a[i] ELSE 0

RECURSIVE BTrim(_)
BTrim(a) ==
    IF Len(a) > 0 /\ a[Len(a)] = 0 THEN BTrim(SubSeq(a, 1, Len(a) - 1)) ELSE a

RECURSIVE BAddRec(_, _, _, _)
BAddRec(a, b, i, carry) ==
    IF i > Len(a) /\ i > Len(b)
    THEN IF carry = 0 THEN <<>> ELSE <<carry>>
    ELSE LET s == Limb(a, i) + Limb(b, i) + carry
         IN  <<s % Base>> \o BAddRec(a, b, i + 1, s \div Base)

BAdd(a, b) == BAddRec(a, b, 1, 0)

\* a - b for a >= b
RECURSIVE BSubRec(_, _, _, _)
BSubRec(a, b, i, borrow) ==
    IF i > Len(a) THEN <<>>
    ELSE LET d == a[i] - Limb(b, i) - borrow
         IN  IF d < 0 THEN <<d + Base>> \o BSubRec(a, b, i + 1, 1)
             ELSE <<d>> \o BSubRec(a, b, i + 1, 0)

BSub(a, b) == BTrim(BSubRec(a, b, 1, 0))

\* a < b
RECURSIVE BLessFrom(_, _, _)
BLessFrom(a, b, i) ==
    IF i = 0 THEN FALSE
    ELSE IF a[i] # b[i] THEN a[i] < b[i]
    ELSE BLessFrom(a, b, i - 1)

BLess(a, b) ==
    IF Len(a) # Len(b) THEN Len(a) < Len(b) ELSE BLessFrom(a, b, Len(a))

\* a * k for 0 <= k < Base
RECURSIVE BMulSmallRec(_, _, _, _)
BMulSmallRec(a, k, i, carry) ==
    IF i > Len(a)
    THEN IF carry = 0 THEN <<>> ELSE <<carry>>
    ELSE LET p == a[i] * k + carry
         IN  <<p % Base>> \o BMulSmallRec(a, k, i + 1, p \div Base)

BMulSmall(a, k) == IF k = 0 THEN <<>> ELSE BMulSmallRec(a, k, 1, 0)

RECURSIVE BMulRec(_, _, _)
BMulRec(a, b, i) ==
    IF i > Len(b) THEN <<>>
    ELSE BAdd(BMulSmall(a, b[i]), <<0>> \o BMulRec(a, b, i + 1))

BMul(a, b) == BTrim(BMulRec(a, b, 1))

\* floor(a / k) for 0 < k < Base; limbs i..1 of a with the remainder r of the limbs above
RECURSIVE BDivSmallRec(_, _, _, _)
BDivSmallRec(a, k, i, r) ==
    IF i = 0 THEN <<>>
    ELSE LET t == r * Base + a[i]
         IN  BDivSmallRec(a, k, i - 1, t % k) \o <<t \div k>>

BDivSmall(a, k) == BTrim(BDivSmallRec(a, k, Len(a), 0))

\* a * 2^n and floor(a / 2^n)
BShl(a, n) ==
    IF a = <<>> THEN <<>>
    ELSE BMulSmall([i \in 1..(n \div LimbBits) |-> 0] \o a, Pow2[(n % LimbBits) + 1])

BShr(a, n) ==
    IF n \div LimbBits >= Len(a) THEN <<>>
    ELSE BDivSmall(SubSeq(a, (n \div LimbBits) + 1, Len(a)), Pow2[(n % LimbBits) + 1])

\* a % 2^n # 0
BLowBits(a, n) ==
    \/ \E i \in 1..(n \div LimbBits) : Limb(a, i) # 0
    \/ Limb(a, (n \div LimbBits) + 1) % Pow2[(n % LimbBits) + 1] # 0

BOdd(a) == Limb(a, 1) % 2 = 1

RECURSIVE LimbLen(_)
LimbLen(k) == IF k = 0 THEN 0 ELSE 1 + LimbLen(k \div 2)

\* the number of bits of a
BitLen(a) == IF a = <<>> THEN 0 ELSE LimbBits * (Len(a) - 1) + LimbLen(a[Len(a)])

\* One digit of a long division: the largest q with q * d <= r, for r < d * Base and the
\* top limb of d at least Base / 2, from an estimate on the top limbs that is at most two
\* too large.
RECURSIVE BDigitDown(_, _, _)
BDigitDown(r, d, q) ==
    IF BLess(r, BMulSmall(d, q)) THEN BDigitDown(r, d, q - 1) ELSE q

BDigit(r, d) ==
    LET n == Len(d)
        est == (Limb(r, n + 1) * Base + Limb(r, n)) \div d[n]
    IN  BDigitDown(r, d, IF est > Base - 1 THEN Base - 1 ELSE est)

\* <<floor(a / d), a % d>> for d with its top limb at least Base / 2; limbs i..1 of a,
\* r the remainder of the limbs above
RECURSIVE BDivRec(_, _, _, _)
BDivRec(a, d, i, r) ==
    IF i = 0 THEN <<<<>>, r>>
    ELSE LET t == BTrim(<<a[i]>> \o r)
             q == BDigit(t, d)
             rest == BDivRec(a, d, i - 1, BSub(t, BMulSmall(d, q)))
         IN  <<rest[1] \o <<q>>, rest[2]>>

\* <<floor(a / d), a % d # 0>> for d > 0
BDivMod(a, d) ==
    LET s == LimbBits - LimbLen(d[Len(d)])
        res == BDivRec(BShl(a, s), BShl(d, s), Len(BShl(a, s)), <<>>)
    IN  <<BTrim(res[1]), res[2] # <<>>>>

(* ------------------------------------------------------------------------- *)
(* float64, nonnegative: 0.0 is kind "zero"; nan is kind "nan"; kind "num"   *)
(* is m * 2^x, with 2^52 <= m < 2^53 (normal) or x = -1074 and m < 2^52      *)
(* (subnormal).  Every operation is the exact result rounded to the nearest  *)
(* float64, ties to the even significand (IEEE 754).                         *)
(* ------------------------------------------------------------------------- *)

SigBits == 53
MinExp == -1074

FloatZero == [kind |-> "zero", m |-> <<>>, x |-> 0]
FloatNaN == [kind |-> "nan", m |-> <<>>, x |-> 0]
FloatOne == [kind |-> "num", m |-> <<0, 0, 0, 1024>>, x |-> -52]

\* (n + f) * 2^e rounded, for a natural n and a fraction 0 <= f < 1 that is not zero
\* exactly when sticky
FloatRound(n, e, sticky) ==
    LET top == e + BitLen(n) - SigBits
        x == IF top < MinExp THEN MinExp ELSE top
        sh == x - e
    IN  IF sh <= 0
        THEN IF n = <<>> THEN FloatZero ELSE [kind |-> "num", m |-> BShl(n, -sh), x |-> x]
        ELSE LET m0 == BShr(n, sh)
                 half == BOdd(BShr(n, sh - 1))
                 rest == sticky \/ BLowBits(n, sh - 1)
                 m == IF half /\ (rest \/ BOdd(m0)) THEN BAdd(m0, <<1>>) ELSE m0
             IN  IF m = <<>> THEN FloatZero
                 ELSE IF BitLen(m) > SigBits
                 THEN [kind |-> "num", m |-> BShr(m, 1), x |-> x + 1]
                 ELSE [kind |-> "num", m |-> m, x |-> x]

FloatMul(a, b) ==
    IF a.kind = "nan" \/ b.kind = "nan" THEN FloatNaN
    ELSE IF a.kind = "zero" \/ b.kind = "zero" THEN FloatZero
    ELSE FloatRound(BMul(a.m, b.m), a.x + b.x, FALSE)

\* the smaller of two numbers that are more than 64 binary places apart is below half a
\* unit of the larger in its last place
FloatAdd(a, b) ==
    IF a.kind = "nan" \/ b.kind = "nan" THEN FloatNaN
    ELSE IF a.kind = "zero" THEN b
    ELSE IF b.kind = "zero" THEN a
    ELSE LET hi == IF a.x >= b.x THEN a ELSE b
             lo == IF a.x >= b.x THEN b ELSE a
         IN  IF hi.x - lo.x > 64 THEN hi
             ELSE FloatRound(BAdd(BShl(hi.m, hi.x - lo.x), lo.m), lo.x, FALSE)

\* a / b; 0.0 / 0.0 is nan, computed by numpy with a warning and no exception.  The
\* divisor is the sum of nonnegative numbers a is one of: it is 0.0 only when a is.
FloatDiv(a, b) ==
    IF a.kind = "nan" \/ b.kind = "nan" THEN FloatNaN
    ELSE IF b.kind = "zero" THEN FloatNaN
    ELSE IF a.kind = "zero" THEN FloatZero
    ELSE LET k == SigBits + 3 + BitLen(b.m) - BitLen(a.m)
             qr == BDivMod(BShl(a.m, k), b.m)
         IN  FloatRound(qr[1], a.x - b.x - k, qr[2])

FloatLess(a, b) ==
    /\ b.kind = "num"
    /\ \/ a.kind = "zero"
       \/ a.kind = "num" /\ (a.x < b.x \/ (a.x = b.x /\ BLess(a.m, b.m)))

(* ------------------------------------------------------------------------- *)
(* exp_table[d2 + 1] is <<x, m>> with np.exp(-0.5 * np.sqrt(d2) ** 2) =      *)
(* m * 2^x, for d2 = 0 .. 1490; the square of the rounded root is not always *)
(* d2 again, so the entry is not always the float nearest to exp(-d2 / 2).   *)
(* From d2 = 1486 on the entries are the subnormals 4, 3, 2, 1, 1 times      *)
(* 2^-1074; from d2 = 1491 on the exponential underflows to 0.0.             *)
(* ------------------------------------------------------------------------- *)

exp_table == <<
    <<-52, <<0, 0, 0, 1024>>>>, <<-53, <<5642, 12734, 2863, 1242>>>>, <<-54, <<12086, 6323, 13667, 1506>>>>,
    <<-55, <<7199, 2349, 14455, 1827>>>>, <<-55, <<460, 3838, 10922, 1108>>>>, <<-56, <<13346, 595, 14428, 1344>>>>,
    <<-57, <<12466, 13114, 6924, 1631>>>>, <<-58, <<16226, 9107, 257, 1979>>>>, <<-58, <<15600, 8324, 5467, 1200>>>>,
    <<-59, <<1047, 6743, 1284, 1456>>>>, <<-60, <<4975, 53, 5118, 1766>>>>, <<-60, <<14120, 11049, 5285, 1071>>>>,
    <<-61, <<5339, 1103, 9503, 1299>>>>, <<-62, <<4097, 10837, 7704, 1576>>>>, <<-63, <<10639, 12434, 5817, 1912>>>>,
    <<-63, <<12752, 4156, 14778, 1159>>>>, <<-64, <<10157, 4160, 528, 1407>>>>, <<-65, <<161, 11493, 13375, 1706>>>>,
    <<-65, <<5218, 5273, 3874, 1035>>>>, <<-66, <<4056, 5414, 13194, 1255>>>>, <<-67, <<15503, 5521, 6043, 1523>>>>,
    <<-68, <<8378, 4058, 15398, 1847>>>>, <<-68, <<10084, 3645, 13634, 1120>>>>, <<-69, <<2831, 6624, 10455, 1359>>>>,
    <<-70, <<15512, 11534, 5315, 1649>>>>, <<-71, <<9872, 15779, 11987, 2000>>>>, <<-71, <<7586, 11872, 8275, 1213>>>>,
    <<-72, <<1503, 5029, 919, 1472>>>>, <<-73, <<5636, 14016, 11375, 1785>>>>, <<-73, <<5873, 13466, 1283, 1083>>>>,
    <<-74, <<11320, 2207, 13770, 1313>>>>, <<-75, <<5785, 476, 12600, 1593>>>>, <<-76, <<1453, 11194, 5563, 1933>>>>,
    <<-76, <<12172, 8419, 10317, 1172>>>>, <<-77, <<10397, 7529, 7729, 1422>>>>, <<-78, <<1636, 2545, 8937, 1725>>>>,
    <<-78, <<8097, 12710, 9768, 1046>>>>, <<-79, <<4816, 7008, 9591, 1269>>>>, <<-80, <<6026, 15537, 1391, 1540>>>>,
    <<-81, <<3091, 6081, 3563, 1868>>>>, <<-81, <<12885, 6093, 2149, 1133>>>>, <<-82, <<171, 15284, 9135, 1374>>>>,
    <<-83, <<13292, 886, 6925, 1667>>>>, <<-84, <<3745, 8901, 11238, 2022>>>>, <<-84, <<15778, 15429, 13451, 1226>>>>,
    <<-85, <<11832, 11997, 3426, 1488>>>>, <<-86, <<15025, 4303, 4734, 1805>>>>, <<-86, <<8690, 7517, 15779, 1094>>>>,
    <<-87, <<8863, 16292, 4216, 1328>>>>, <<-88, <<6724, 7109, 4221, 1611>>>>, <<-89, <<783, 4479, 9082, 1954>>>>,
    <<-89, <<2609, 190, 8145, 1185>>>>, <<-90, <<15960, 7169, 1322, 1438>>>>, <<-91, <<9794, 12965, 7865, 1744>>>>,
    <<-91, <<16026, 8665, 1321, 1058>>>>, <<-92, <<14939, 15715, 8465, 1283>>>>, <<-93, <<5050, 13749, 16129, 1556>>>>,
    <<-94, <<4529, 1360, 11758, 1888>>>>, <<-94, <<1166, 11182, 9259, 1145>>>>, <<-95, <<14391, 12049, 10498, 1389>>>>,
    <<-96, <<16218, 2737, 11788, 1685>>>>, <<-97, <<13351, 2250, 14436, 2044>>>>, <<-97, <<15290, 2356, 4638, 1240>>>>,
    <<-98, <<8118, 3410, 8838, 1504>>>>, <<-99, <<9320, 7557, 1615, 1825>>>>, <<-99, <<15460, 12725, 16027, 1106>>>>,
    <<-100, <<7550, 12765, 13639, 1342>>>>, <<-101, <<14027, 45, 15371, 1628>>>>, <<-102, <<10912, 15192, 30, 1976>>>>,
    <<-102, <<6884, 14023, 8285, 1198>>>>, <<-103, <<12512, 10599, 14105, 1453>>>>, <<-104, <<5818, 9142, 10198, 1763>>>>,
    <<-104, <<8325, 16247, 11322, 1069>>>>, <<-105, <<15377, 1802, 9845, 1297>>>>, <<-106, <<8277, 16169, 1137, 1574>>>>,
    <<-107, <<7820, 6336, 7254, 1909>>>>, <<-107, <<13023, 6840, 2221, 1158>>>>, <<-108, <<7087, 4014, 14573, 1404>>>>,
    <<-109, <<6915, 12237, 3556, 1704>>>>, <<-109, <<3327, 462, 10812, 1033>>>>, <<-110, <<6653, 9836, 14628, 1253>>>>,
    <<-111, <<13658, 9847, 801, 1521>>>>, <<-112, <<2022, 1757, 2058, 1845>>>>, <<-112, <<10062, 3631, 2052, 1119>>>>,
    <<-113, <<14172, 15243, 9298, 1357>>>>, <<-114, <<9134, 3882, 13315, 1646>>>>, <<-115, <<12094, 8144, 11219, 1997>>>>,
    <<-115, <<1810, 7069, 10765, 1211>>>>, <<-116, <<2284, 14429, 13341, 1469>>>>, <<-117, <<15628, 13257, 15972, 1782>>>>,
    <<-117, <<13629, 13439, 7027, 1081>>>>, <<-118, <<10516, 5958, 13756, 1311>>>>, <<-119, <<7600, 11970, 5601, 1591>>>>,
    <<-120, <<7727, 11874, 6476, 1930>>>>, <<-120, <<7094, 1746, 13827, 1170>>>>, <<-121, <<14774, 3561, 5005, 1420>>>>,
    <<-122, <<491, 14569, 15034, 1722>>>>, <<-122, <<5454, 710, 39, 1045>>>>, <<-123, <<3973, 14238, 10681, 1267>>>>,
    <<-124, <<3663, 2083, 12117, 1537>>>>, <<-125, <<2111, 4600, 6101, 1865>>>>, <<-125, <<12842, 8141, 6644, 1131>>>>,
    <<-126, <<7564, 3306, 7607, 1372>>>>, <<-127, <<2337, 267, 14473, 1664>>>>, <<-128, <<6509, 4821, 9922, 2019>>>>,
    <<-128, <<9290, 6576, 15609, 1224>>>>, <<-129, <<5255, 4420, 15446, 1485>>>>, <<-130, <<9466, 5058, 8842, 1802>>>>,
    <<-130, <<15368, 15068, 4842, 1093>>>>, <<-131, <<6209, 8277, 3843, 1326>>>>, <<-132, <<8308, 12702, 13170, 1608>>>>,
    <<-133, <<13150, 16109, 9465, 1951>>>>, <<-133, <<7703, 8985, 11333, 1183>>>>, <<-134, <<1558, 12042, 14592, 1435>>>>,
    <<-135, <<1985, 1406, 13491, 1741>>>>, <<-135, <<2406, 4055, 7689, 1056>>>>, <<-136, <<15296, 13090, 9208, 1281>>>>,
    <<-137, <<1434, 5834, 10049, 1554>>>>, <<-138, <<1357, 8042, 13784, 1885>>>>, <<-138, <<2541, 9273, 13444, 1143>>>>,
    <<-139, <<6234, 10853, 8593, 1387>>>>, <<-140, <<1042, 9886, 2495, 1683>>>>, <<-141, <<10637, 1547, 12566, 2041>>>>,
    <<-141, <<14980, 11640, 6459, 1238>>>>, <<-142, <<6267, 4700, 4066, 1502>>>>, <<-143, <<12305, 3847, 5229, 1822>>>>,
    <<-143, <<11986, 7310, 4791, 1105>>>>, <<-144, <<13190, 10232, 12902, 1340>>>>, <<-145, <<9318, 3207, 7495, 1626>>>>,
    <<-146, <<11121, 8144, 16263, 1972>>>>, <<-146, <<13080, 13334, 11149, 1196>>>>, <<-147, <<2923, 3445, 10598, 1451>>>>,
    <<-148, <<10731, 3750, 15346, 1760>>>>, <<-148, <<3491, 277, 1017, 1068>>>>, <<-149, <<86, 8750, 10236, 1295>>>>,
    <<-150, <<5692, 3521, 11015, 1571>>>>, <<-151, <<9252, 11141, 8763, 1906>>>>, <<-151, <<10681, 10734, 6092, 1156>>>>,
    <<-152, <<14897, 11474, 12287, 1402>>>>, <<-153, <<6775, 10613, 10186, 1701>>>>, <<-153, <<7403, 1169, 1405, 1032>>>>,
    <<-154, <<12320, 9637, 16110, 1251>>>>, <<-155, <<10251, 12286, 12001, 1518>>>>, <<-156, <<12898, 3024, 5172, 1842>>>>,
    <<-156, <<3781, 13272, 6896, 1117>>>>, <<-157, <<10832, 1964, 8194, 1355>>>>, <<-158, <<11262, 7221, 4993, 1644>>>>,
    <<-159, <<10687, 896, 10527, 1994>>>>, <<-159, <<10384, 4078, 13301, 1209>>>>, <<-160, <<15672, 6380, 9436, 1467>>>>,
    <<-161, <<3034, 10085, 4253, 1780>>>>, <<-161, <<35, 15948, 12812, 1079>>>>, <<-162, <<47, 8451, 13792, 1309>>>>,
    <<-163, <<10740, 16253, 15047, 1588>>>>, <<-164, <<2634, 3754, 7463, 1927>>>>, <<-164, <<11704, 4206, 997, 1169>>>>,
    <<-165, <<13392, 428, 2335, 1418>>>>, <<-166, <<7525, 3116, 4814, 1720>>>>, <<-166, <<10521, 1300, 6733, 1043>>>>,
    <<-167, <<4579, 9042, 11820, 1265>>>>, <<-168, <<11749, 13532, 6516, 1535>>>>, <<-169, <<2022, 2928, 8710, 1862>>>>,
    <<-169, <<4049, 11117, 11182, 1129>>>>, <<-170, <<3990, 11486, 6130, 1370>>>>, <<-171, <<2975, 5522, 5700, 1662>>>>,
    <<-172, <<2134, 14796, 8682, 2016>>>>, <<-172, <<15765, 7825, 1429, 1223>>>>, <<-173, <<14522, 5834, 11138, 1483>>>>,
    <<-174, <<10822, 15597, 13018, 1799>>>>, <<-174, <<16051, 16169, 10331, 1091>>>>, <<-175, <<16197, 7978, 3520, 1324>>>>,
    <<-176, <<5770, 5588, 5797, 1606>>>>, <<-177, <<4472, 15763, 9923, 1948>>>>, <<-177, <<1147, 2157, 14567, 1181>>>>,
    <<-178, <<5661, 11082, 11533, 1433>>>>, <<-179, <<586, 10926, 2798, 1739>>>>, <<-179, <<8190, 2800, 14097, 1054>>>>,
    <<-180, <<1298, 6713, 10000, 1279>>>>, <<-181, <<7306, 575, 4028, 1552>>>>, <<-182, <<7833, 10911, 15882, 1882>>>>,
    <<-182, <<9251, 16032, 1288, 1142>>>>, <<-183, <<5942, 6436, 6741, 1385>>>>, <<-184, <<10957, 1531, 9651, 1680>>>>,
    <<-185, <<13648, 12332, 10773, 2038>>>>, <<-185, <<9859, 6640, 8328, 1236>>>>, <<-186, <<12555, 8764, 15735, 1499>>>>,
    <<-187, <<113, 5871, 8912, 1819>>>>, <<-187, <<4635, 2925, 9981, 1103>>>>, <<-188, <<12530, 8106, 12216, 1338>>>>,
    <<-189, <<2983, 4669, 16065, 1623>>>>, <<-190, <<12200, 2471, 16187, 1969>>>>, <<-190, <<1033, 5121, 14059, 1194>>>>,
    <<-191, <<13449, 282, 7146, 1449>>>>, <<-192, <<9633, 14971, 4176, 1758>>>>, <<-192, <<4672, 11275, 7135, 1066>>>>,
    <<-193, <<6795, 4328, 10677, 1293>>>>, <<-194, <<2312, 4166, 4568, 1569>>>>, <<-195, <<13499, 8652, 10345, 1903>>>>,
    <<-195, <<10685, 14738, 10007, 1154>>>>, <<-196, <<807, 8824, 10055, 1400>>>>, <<-197, <<12018, 5002, 497, 1699>>>>,
    <<-197, <<9295, 6413, 8421, 1030>>>>, <<-198, <<10856, 3627, 1256, 1250>>>>, <<-199, <<634, 11394, 6875, 1516>>>>,
    <<-200, <<7742, 6109, 8356, 1839>>>>, <<-200, <<13371, 15120, 11783, 1115>>>>, <<-201, <<8221, 14649, 7140, 1353>>>>,
    <<-202, <<10292, 3604, 13118, 1641>>>>, <<-203, <<7856, 8522, 9910, 1991>>>>, <<-203, <<8115, 1750, 15883, 1207>>>>,
    <<-204, <<14595, 12256, 5586, 1465>>>>, <<-205, <<943, 2805, 8986, 1777>>>>, <<-205, <<221, 3580, 2255, 1078>>>>,
    <<-206, <<2056, 8439, 13878, 1307>>>>, <<-207, <<14454, 11814, 8170, 1586>>>>, <<-208, <<2929, 1384, 8523, 1924>>>>,
    <<-208, <<13472, 14688, 4595, 1167>>>>, <<-209, <<12521, 13165, 16102, 1415>>>>, <<-210, <<6978, 15703, 11042, 1717>>>>,
    <<-210, <<2635, 13489, 13466, 1041>>>>, <<-211, <<11846, 6600, 13007, 1263>>>>, <<-212, <<11796, 15657, 974, 1533>>>>,
    <<-213, <<15316, 15677, 11389, 1859>>>>, <<-213, <<14213, 13945, 15763, 1127>>>>, <<-214, <<2364, 5752, 4706, 1368>>>>,
    <<-215, <<1015, 15071, 13374, 1659>>>>, <<-216, <<12278, 4139, 7520, 2013>>>>, <<-216, <<547, 1631, 3680, 1221>>>>,
    <<-217, <<7477, 14830, 6886, 1481>>>>, <<-218, <<9377, 1441, 880, 1797>>>>, <<-218, <<8721, 9782, 15862, 1089>>>>,
    <<-219, <<1130, 14138, 3247, 1322>>>>, <<-220, <<5289, 623, 14869, 1603>>>>, <<-221, <<5967, 1586, 10456, 1945>>>>,
    <<-221, <<16238, 11348, 1461, 1180>>>>, <<-222, <<4690, 2927, 8529, 1431>>>>, <<-223, <<6958, 7103, 8556, 1736>>>>,
    <<-223, <<14550, 3898, 4161, 1053>>>>, <<-224, <<7651, 11749, 10840, 1277>>>>, <<-225, <<3500, 12881, 14449, 1549>>>>,
    <<-226, <<12804, 8177, 1668, 1880>>>>, <<-226, <<3567, 13990, 5560, 1140>>>>, <<-227, <<5322, 13865, 4941, 1383>>>>,
    <<-228, <<9728, 8844, 486, 1678>>>>, <<-229, <<10319, 16283, 9058, 2035>>>>, <<-229, <<1378, 2564, 10244, 1234>>>>,
    <<-230, <<3770, 14177, 11077, 1497>>>>, <<-231, <<15422, 11896, 12664, 1816>>>>, <<-231, <<1324, 14904, 15212, 1101>>>>,
    <<-232, <<3764, 5114, 11581, 1336>>>>, <<-233, <<4884, 2886, 8313, 1621>>>>, <<-234, <<7154, 12684, 16185, 1966>>>>,
    <<-234, <<15055, 4629, 630, 1193>>>>, <<-235, <<4650, 16118, 3748, 1447>>>>, <<-236, <<902, 8365, 9458, 1755>>>>,
    <<-236, <<9029, 15459, 13294, 1064>>>>, <<-237, <<15115, 3691, 11167, 1291>>>>, <<-238, <<8447, 227, 14565, 1566>>>>,
    <<-239, <<14972, 13443, 11999, 1900>>>>, <<-239, <<12802, 1370, 13967, 1152>>>>, <<-240, <<14823, 11113, 7876, 1398>>>>,
    <<-241, <<11252, 10173, 7256, 1696>>>>, <<-241, <<8838, 15214, 15476, 1028>>>>, <<-242, <<5532, 7001, 2833, 1248>>>>,
    <<-243, <<15615, 5727, 1807, 1514>>>>, <<-244, <<14082, 9261, 11610, 1836>>>>, <<-244, <<5555, 8116, 329, 1114>>>>,
    <<-245, <<4770, 2859, 6139, 1351>>>>, <<-246, <<881, 7854, 4921, 1639>>>>, <<-247, <<3237, 12744, 9369, 1988>>>>,
    <<-247, <<15819, 15319, 2126, 1206>>>>, <<-248, <<6804, 14279, 1792, 1463>>>>, <<-249, <<2083, 6111, 13786, 1774>>>>,
    <<-249, <<9543, 8078, 8122, 1076>>>>, <<-250, <<4393, 4679, 14014, 1305>>>>, <<-251, <<6755, 13529, 1353, 1584>>>>,
    <<-252, <<5536, 2934, 9656, 1921>>>>, <<-252, <<11369, 15698, 8238, 1165>>>>, <<-253, <<2575, 7658, 13540, 1413>>>>,
    <<-254, <<7095, 1544, 953, 1715>>>>, <<-254, <<2147, 3517, 3856, 1040>>>>, <<-255, <<11725, 5711, 14242, 1261>>>>,
    <<-256, <<5198, 7000, 11875, 1530>>>>, <<-257, <<372, 8313, 14140, 1856>>>>, <<-257, <<15909, 15554, 4003, 1126>>>>,
    <<-258, <<15524, 1186, 3334, 1366>>>>, <<-259, <<5327, 10951, 4728, 1657>>>>, <<-260, <<7926, 3705, 6434, 2010>>>>,
    <<-260, <<6692, 3214, 5977, 1219>>>>, <<-261, <<3712, 13614, 2691, 1479>>>>, <<-262, <<5806, 10033, 5193, 1794>>>>,
    <<-262, <<1015, 11254, 5050, 1088>>>>, <<-263, <<3740, 9113, 3025, 1320>>>>, <<-264, <<2411, 12666, 7617, 1601>>>>,
    <<-265, <<12897, 4496, 11062, 1942>>>>, <<-265, <<201, 2671, 4785, 1178>>>>, <<-266, <<9291, 2599, 5579, 1429>>>>,
    <<-267, <<14144, 4670, 14380, 1733>>>>, <<-267, <<11169, 6348, 10649, 1051>>>>, <<-268, <<963, 10601, 11729, 1275>>>>,
    <<-269, <<7683, 8509, 8546, 1547>>>>, <<-270, <<1112, 14437, 3909, 1877>>>>, <<-270, <<10939, 2061, 9876, 1138>>>>,
    <<-271, <<12172, 15440, 3194, 1381>>>>, <<-272, <<763, 13845, 7769, 1675>>>>, <<-273, <<4221, 11464, 7421, 2032>>>>,
    <<-273, <<4564, 14621, 12206, 1232>>>>, <<-274, <<8275, 3129, 6477, 1495>>>>, <<-275, <<14147, 3813, 102, 1814>>>>,
    <<-275, <<3288, 9431, 4102, 1100>>>>, <<-276, <<16307, 16367, 10996, 1334>>>>, <<-277, <<14674, 12700, 622, 1619>>>>,
    <<-278, <<2719, 4144, 16259, 1963>>>>, <<-278, <<13567, 10726, 3630, 1191>>>>, <<-279, <<4975, 423, 407, 1445>>>>,
    <<-280, <<9131, 15029, 14806, 1752>>>>, <<-280, <<6296, 11817, 3110, 1063>>>>, <<-281, <<2465, 5612, 11706, 1289>>>>,
    <<-282, <<7080, 6599, 8237, 1564>>>>, <<-283, <<4992, 7323, 13726, 1897>>>>, <<-283, <<11249, 2302, 1586, 1151>>>>,
    <<-284, <<8372, 630, 5751, 1396>>>>, <<-285, <<14836, 8128, 14080, 1693>>>>, <<-285, <<14449, 10209, 6187, 1027>>>>,
    <<-286, <<12854, 2187, 4458, 1246>>>>, <<-287, <<8621, 10232, 13180, 1511>>>>, <<-288, <<4040, 10735, 14934, 1833>>>>,
    <<-288, <<6298, 7583, 5301, 1112>>>>, <<-289, <<14471, 14460, 5188, 1349>>>>, <<-290, <<261, 2027, 13171, 1636>>>>,
    <<-291, <<12696, 11670, 8904, 1985>>>>, <<-291, <<110, 10872, 4800, 1204>>>>, <<-292, <<2967, 11057, 14438, 1460>>>>,
    <<-293, <<9315, 1931, 2270, 1772>>>>, <<-293, <<15500, 12035, 14030, 1074>>>>, <<-294, <<9883, 12313, 14199, 1303>>>>,
    <<-295, <<13743, 3506, 10981, 1581>>>>, <<-296, <<3889, 6577, 10862, 1918>>>>, <<-296, <<15643, 6127, 11926, 1163>>>>,
    <<-297, <<7614, 15329, 11031, 1411>>>>, <<-298, <<8638, 8160, 7312, 1712>>>>, <<-298, <<5008, 3163, 10669, 1038>>>>,
    <<-299, <<4406, 5175, 15525, 1259>>>>, <<-300, <<12958, 2488, 6450, 1528>>>>, <<-301, <<8851, 11835, 577, 1854>>>>,
    <<-301, <<8477, 14873, 8670, 1124>>>>, <<-302, <<7234, 12875, 2013, 1364>>>>, <<-303, <<15011, 7970, 12529, 1654>>>>,
    <<-304, <<7650, 11581, 5424, 2007>>>>, <<-304, <<7513, 11416, 8320, 1217>>>>, <<-305, <<8589, 779, 14937, 1476>>>>,
    <<-306, <<11044, 6898, 9575, 1791>>>>, <<-306, <<9503, 3165, 10664, 1086>>>>, <<-307, <<15843, 8032, 2853, 1318>>>>,
    <<-308, <<13751, 7425, 427, 1599>>>>, <<-309, <<2188, 6263, 11742, 1939>>>>, <<-309, <<9260, 7770, 8153, 1176>>>>,
    <<-310, <<14699, 8739, 2683, 1427>>>>, <<-311, <<7675, 1979, 3886, 1731>>>>, <<-311, <<12888, 9149, 793, 1050>>>>,
    <<-312, <<10965, 2054, 12667, 1273>>>>, <<-313, <<9488, 2372, 2702, 1545>>>>, <<-314, <<1740, 11520, 6222, 1874>>>>,
    <<-314, <<1849, 11932, 14234, 1136>>>>, <<-315, <<2788, 9849, 1500, 1379>>>>, <<-316, <<11947, 14939, 15116, 1672>>>>,
    <<-317, <<13886, 12325, 5861, 2029>>>>, <<-317, <<13467, 8871, 14216, 1230>>>>, <<-318, <<8098, 6967, 1933, 1493>>>>,
    <<-319, <<11410, 12664, 3992, 1811>>>>, <<-319, <<5825, 1844, 9418, 1098>>>>, <<-320, <<13365, 7830, 10463, 1332>>>>,
    <<-321, <<4840, 16189, 9377, 1616>>>>, <<-322, <<3889, 7751, 23, 1961>>>>, <<-322, <<15027, 5894, 6676, 1189>>>>,
    <<-323, <<10589, 975, 13504, 1442>>>>, <<-324, <<1825, 530, 3838, 1750>>>>, <<-324, <<11802, 15721, 9350, 1061>>>>,
    <<-325, <<10324, 8862, 12294, 1287>>>>, <<-326, <<38, 5410, 1969, 1562>>>>, <<-327, <<2409, 4870, 15525, 1894>>>>,
    <<-327, <<11647, 55, 5633, 1149>>>>, <<-328, <<16088, 8813, 3678, 1394>>>>, <<-329, <<10710, 13641, 4584, 1691>>>>,
    <<-329, <<9164, 6806, 13321, 1025>>>>, <<-330, <<13568, 4385, 6130, 1244>>>>, <<-331, <<449, 7086, 8227, 1509>>>>,
    <<-332, <<10394, 8785, 1944, 1831>>>>, <<-332, <<2600, 12464, 10315, 1110>>>>, <<-333, <<1971, 15403, 4289, 1347>>>>,
    <<-334, <<15612, 950, 5099, 1634>>>>, <<-335, <<15128, 3413, 8515, 1982>>>>, <<-335, <<6353, 3645, 7520, 1202>>>>,
    <<-336, <<14329, 1200, 10756, 1458>>>>, <<-337, <<1635, 4965, 7205, 1769>>>>, <<-337, <<16096, 14429, 3595, 1073>>>>,
    <<-338, <<2289, 13718, 14434, 1301>>>>, <<-339, <<16097, 13010, 4284, 1579>>>>, <<-340, <<4255, 10488, 12141, 1915>>>>,
    <<-340, <<15191, 1253, 15658, 1161>>>>, <<-341, <<3322, 2069, 8577, 1409>>>>, <<-342, <<2412, 1155, 13737, 1709>>>>,
    <<-342, <<15338, 11439, 1137, 1037>>>>, <<-343, <<2530, 3793, 472, 1258>>>>, <<-344, <<11533, 669, 1083, 1526>>>>,
    <<-345, <<5169, 8098, 3469, 1851>>>>, <<-345, <<1456, 10832, 13380, 1122>>>>, <<-346, <<5338, 6752, 745, 1362>>>>,
    <<-347, <<3165, 4556, 4009, 1652>>>>, <<-348, <<13191, 9474, 4491, 2004>>>>, <<-348, <<6702, 8695, 10710, 1215>>>>,
    <<-349, <<13970, 7689, 10854, 1474>>>>, <<-350, <<11278, 6717, 14025, 1788>>>>, <<-350, <<11861, 867, 16319, 1084>>>>,
    <<-351, <<12499, 9643, 2731, 1316>>>>, <<-352, <<12608, 16149, 9681, 1596>>>>, <<-353, <<12635, 5040, 12496, 1936>>>>,
    <<-353, <<13354, 9144, 11566, 1174>>>>, <<-354, <<1628, 3607, 16226, 1424>>>>, <<-355, <<14653, 13766, 9841, 1728>>>>,
    <<-355, <<9955, 11303, 7361, 1048>>>>, <<-356, <<15579, 1282, 13653, 1271>>>>, <<-357, <<1146, 9385, 13300, 1542>>>>,
    <<-358, <<5594, 14028, 8606, 1871>>>>, <<-358, <<6635, 9752, 2252, 1135>>>>, <<-359, <<1069, 12163, 16242, 1376>>>>,
    <<-360, <<10317, 10537, 6143, 1670>>>>, <<-361, <<9800, 554, 4379, 2026>>>>, <<-361, <<3319, 529, 16273, 1228>>>>,
    <<-362, <<3712, 7887, 13830, 1490>>>>, <<-363, <<15659, 3958, 7952, 1808>>>>, <<-363, <<12585, 7482, 14775, 1096>>>>,
    <<-364, <<6530, 11003, 9980, 1330>>>>, <<-365, <<2473, 11814, 1810, 1614>>>>, <<-366, <<12369, 5256, 246, 1958>>>>,
    <<-366, <<1812, 5387, 9767, 1187>>>>, <<-367, <<3789, 19, 10272, 1440>>>>, <<-368, <<4357, 12354, 9319, 1747>>>>,
    <<-368, <<436, 9779, 15631, 1059>>>>, <<-369, <<11344, 12218, 12931, 1285>>>>, <<-370, <<11838, 11557, 12144, 1559>>>>,
    <<-371, <<6165, 4282, 1012, 1892>>>>, <<-371, <<13728, 9920, 9723, 1147>>>>, <<-372, <<7610, 1570, 1659, 1392>>>>,
    <<-373, <<7762, 8719, 11537, 1688>>>>, <<-373, <<271, 4029, 4110, 1024>>>>, <<-374, <<1140, 12412, 7849, 1242>>>>,
    <<-375, <<15095, 11236, 3331, 1507>>>>, <<-376, <<9873, 1671, 5408, 1828>>>>, <<-376, <<7302, 5318, 15372, 1108>>>>,
    <<-377, <<12576, 4404, 3442, 1345>>>>, <<-378, <<10010, 3071, 13473, 1631>>>>, <<-379, <<5635, 2472, 8201, 1979>>>>,
    <<-379, <<9206, 8880, 10285, 1200>>>>, <<-380, <<5700, 16091, 7128, 1456>>>>, <<-381, <<197, 13529, 12207, 1766>>>>,
    <<-381, <<725, 14240, 9585, 1071>>>>, <<-382, <<13917, 7654, 14719, 1299>>>>, <<-383, <<249, 7772, 14032, 1576>>>>,
    <<-384, <<9270, 12845, 13493, 1912>>>>, <<-384, <<9703, 16355, 3049, 1160>>>>, <<-385, <<15706, 15688, 6175, 1407>>>>,
    <<-386, <<5183, 11670, 3842, 1707>>>>, <<-386, <<13399, 10976, 8029, 1035>>>>, <<-387, <<900, 369, 1851, 1256>>>>,
    <<-388, <<12591, 91, 12158, 1523>>>>, <<-389, <<15275, 11724, 6431, 1848>>>>, <<-389, <<15246, 2362, 1749, 1121>>>>,
    <<-390, <<5704, 14290, 15912, 1359>>>>, <<-391, <<14296, 15519, 11935, 1649>>>>, <<-392, <<6631, 11863, 3634, 2001>>>>,
    <<-392, <<2399, 10279, 13146, 1213>>>>, <<-393, <<13622, 174, 6828, 1472>>>>, <<-394, <<4338, 7789, 2159, 1786>>>>,
    <<-394, <<11138, 3328, 5631, 1083>>>>, <<-395, <<14948, 12693, 2659, 1314>>>>, <<-396, <<9520, 4551, 2613, 1594>>>>,
    <<-397, <<13040, 15371, 13323, 1933>>>>, <<-397, <<10999, 5676, 15024, 1172>>>>, <<-398, <<16352, 2229, 13439, 1422>>>>,
    <<-399, <<3767, 5621, 15863, 1725>>>>, <<-399, <<1412, 11813, 13969, 1046>>>>, <<-400, <<7206, 7076, 14687, 1269>>>>,
    <<-401, <<13096, 11695, 7573, 1540>>>>, <<-402, <<1127, 3798, 11062, 1868>>>>, <<-402, <<1329, 10827, 6697, 1133>>>>,
    <<-403, <<16121, 4688, 14653, 1374>>>>, <<-404, <<5740, 15434, 13617, 1667>>>>, <<-405, <<7937, 6991, 2973, 2023>>>>,
    <<-405, <<11089, 4808, 1992, 1227>>>>, <<-406, <<211, 4471, 9400, 1488>>>>, <<-407, <<12670, 8744, 11980, 1805>>>>,
    <<-407, <<5366, 8919, 3790, 1095>>>>, <<-408, <<5162, 8236, 9548, 1328>>>>, <<-409, <<8086, 14424, 10688, 1611>>>>,
    <<-410, <<11351, 11182, 543, 1955>>>>, <<-410, <<383, 8074, 12903, 1185>>>>, <<-411, <<923, 12568, 7094, 1438>>>>,
    <<-412, <<2255, 16072, 14867, 1744>>>>, <<-412, <<4580, 9365, 5568, 1058>>>>, <<-413, <<9859, 14457, 13617, 1283>>>>,
    <<-414, <<4785, 7175, 5995, 1557>>>>, <<-415, <<11483, 3760, 2955, 1889>>>>, <<-415, <<12016, 14422, 13857, 1145>>>>,
    <<-416, <<471, 10344, 16076, 1389>>>>, <<-417, <<7555, 8140, 2170, 1686>>>>, <<-418, <<8333, 1806, 6260, 2045>>>>,
    <<-418, <<15413, 8700, 9616, 1240>>>>, <<-419, <<15203, 4867, 14877, 1504>>>>, <<-420, <<8560, 4038, 8941, 1825>>>>,
    <<-420, <<11415, 1475, 4087, 1107>>>>, <<-421, <<9377, 12954, 2645, 1343>>>>, <<-422, <<3333, 6837, 5525, 1629>>>>,
    <<-423, <<9229, 6963, 7962, 1976>>>>, <<-423, <<12461, 9051, 13096, 1198>>>>, <<-424, <<9453, 5191, 3557, 1454>>>>,
    <<-425, <<2606, 9559, 893, 1764>>>>, <<-425, <<1303, 10447, 15616, 1069>>>>, <<-426, <<8358, 9271, 15053, 1297>>>>,
    <<-427, <<5498, 2674, 7456, 1574>>>>, <<-428, <<1494, 11830, 14918, 1909>>>>, <<-428, <<10637, 1177, 6870, 1158>>>>,
    <<-429, <<5386, 5698, 3828, 1405>>>>, <<-430, <<7255, 5314, 10397, 1704>>>>, <<-430, <<2765, 789, 14961, 1033>>>>,
    <<-431, <<6371, 10092, 3277, 1254>>>>, <<-432, <<14866, 15689, 6906, 1521>>>>, <<-433, <<7967, 4573, 9464, 1845>>>>,
    <<-433, <<14124, 4783, 6544, 1119>>>>, <<-434, <<3240, 1428, 14748, 1357>>>>, <<-435, <<1461, 6525, 3541, 1647>>>>,
    <<-436, <<2727, 460, 2854, 1998>>>>, <<-436, <<6267, 15013, 15628, 1211>>>>, <<-437, <<3169, 9602, 2857, 1470>>>>,
    <<-438, <<13448, 8414, 6745, 1783>>>>, <<-438, <<2957, 9518, 11368, 1081>>>>, <<-439, <<11932, 15933, 2637, 1312>>>>,
    <<-440, <<4160, 3883, 11989, 1591>>>>, <<-441, <<3957, 2649, 14225, 1930>>>>, <<-441, <<11171, 12634, 2142, 1171>>>>,
    <<-442, <<8601, 3255, 10706, 1420>>>>, <<-443, <<1540, 8669, 5566, 1723>>>>, <<-443, <<11441, 9682, 4233, 1045>>>>,
    <<-444, <<7467, 1843, 15770, 1267>>>>, <<-445, <<12731, 7839, 1905, 1538>>>>, <<-446, <<2474, 11820, 13588, 1865>>>>,
    <<-446, <<3581, 14078, 11185, 1131>>>>, <<-447, <<5571, 2503, 13116, 1372>>>>, <<-448, <<11818, 11659, 4771, 1665>>>>,
    <<-449, <<9601, 13328, 1644, 2020>>>>, <<-449, <<4147, 4159, 4142, 1225>>>>, <<-450, <<2684, 11687, 5026, 1486>>>>,
    <<-451, <<15879, 8920, 16077, 1802>>>>, <<-451, <<8242, 5112, 9231, 1093>>>>, <<-452, <<2377, 14650, 9166, 1326>>>>,
    <<-453, <<10537, 6103, 3244, 1609>>>>, <<-454, <<13857, 7285, 915, 1952>>>>, <<-454, <<15787, 12827, 16084, 1183>>>>,
    <<-455, <<3551, 4486, 3972, 1436>>>>, <<-456, <<4605, 10024, 4098, 1742>>>>, <<-456, <<642, 13474, 11929, 1056>>>>,
    <<-457, <<7779, 14358, 14352, 1281>>>>, <<-458, <<11545, 7165, 16289, 1554>>>>, <<-459, <<8150, 1508, 4970, 1886>>>>,
    <<-459, <<11453, 12471, 1651, 1144>>>>, <<-460, <<14213, 1044, 14163, 1387>>>>, <<-461, <<2353, 10301, 9251, 1683>>>>,
    <<-462, <<5853, 9297, 4377, 2042>>>>, <<-462, <<10712, 8456, 11430, 1238>>>>, <<-463, <<14054, 2931, 10096, 1502>>>>,
    <<-464, <<4026, 14150, 12543, 1822>>>>, <<-464, <<14495, 16266, 9227, 1105>>>>, <<-465, <<2595, 7007, 1900, 1341>>>>,
    <<-466, <<4203, 10698, 14023, 1626>>>>, <<-467, <<15975, 15007, 7798, 1973>>>>, <<-467, <<15482, 3018, 15953, 1196>>>>,
    <<-468, <<9144, 16270, 40, 1452>>>>, <<-469, <<15619, 7761, 6030, 1761>>>>, <<-469, <<9771, 2033, 5304, 1068>>>>,
    <<-470, <<13954, 949, 15437, 1295>>>>, <<-471, <<11441, 12604, 939, 1572>>>>, <<-472, <<8398, 5625, 32, 1907>>>>,
    <<-472, <<6957, 3770, 10734, 1156>>>>, <<-473, <<15352, 3528, 1534, 1403>>>>, <<-474, <<7530, 13234, 632, 1702>>>>,
    <<-474, <<13133, 12661, 5547, 1032>>>>, <<-475, <<6766, 15386, 4751, 1252>>>>, <<-476, <<5043, 13249, 1713, 1519>>>>,
    <<-477, <<58, 1273, 12567, 1842>>>>, <<-477, <<5919, 646, 11382, 1117>>>>, <<-478, <<8737, 16026, 13634, 1355>>>>,
    <<-479, <<6423, 8773, 11593, 1644>>>>, <<-480, <<15316, 6132, 2149, 1995>>>>, <<-480, <<9470, 5361, 1773, 1210>>>>,
    <<-481, <<13356, 1805, 15327, 1467>>>>, <<-482, <<6574, 6898, 11399, 1780>>>>, <<-482, <<9725, 2023, 763, 1080>>>>,
    <<-483, <<5678, 1731, 2666, 1310>>>>, <<-484, <<1655, 12631, 5041, 1589>>>>, <<-485, <<14715, 14188, 15199, 1927>>>>,
    <<-485, <<2551, 12521, 5689, 1169>>>>, <<-486, <<10836, 5332, 8027, 1418>>>>, <<-487, <<11421, 4887, 11719, 1720>>>>,
    <<-487, <<6751, 3918, 10921, 1043>>>>, <<-488, <<3218, 762, 517, 1266>>>>, <<-489, <<4383, 12738, 12679, 1535>>>>,
    <<-490, <<3747, 3552, 16186, 1862>>>>, <<-490, <<11333, 2045, 15717, 1129>>>>, <<-491, <<12252, 4300, 11631, 1370>>>>,
    <<-492, <<1687, 14014, 12372, 1662>>>>, <<-493, <<11661, 1260, 393, 2017>>>>, <<-493, <<12971, 13799, 6338, 1223>>>>,
    <<-494, <<4811, 11738, 709, 1484>>>>, <<-495, <<15127, 2772, 3859, 1800>>>>, <<-495, <<5326, 11406, 14713, 1091>>>>,
    <<-496, <<4933, 12599, 8835, 1324>>>>, <<-497, <<5363, 1705, 12245, 1606>>>>, <<-498, <<12057, 8093, 1361, 1949>>>>,
    <<-498, <<173, 2139, 2927, 1182>>>>, <<-499, <<12800, 7175, 904, 1434>>>>, <<-500, <<14704, 8937, 9779, 1739>>>>,
    <<-500, <<6259, 4716, 1947, 1055>>>>, <<-501, <<3111, 10702, 15136, 1279>>>>, <<-502, <<2265, 10050, 10258, 1552>>>>,
    <<-503, <<133, 12116, 7056, 1883>>>>, <<-503, <<11828, 2979, 5873, 1142>>>>, <<-504, <<2184, 5121, 12302, 1385>>>>,
    <<-505, <<6576, 13600, 12, 1681>>>>, <<-506, <<7068, 12204, 2572, 2039>>>>, <<-506, <<3725, 10501, 13291, 1236>>>>,
    <<-507, <<13180, 3999, 5372, 1500>>>>, <<-508, <<6900, 13889, 16215, 1819>>>>, <<-508, <<11677, 15872, 14410, 1103>>>>,
    <<-509, <<3064, 1671, 1206, 1339>>>>, <<-510, <<10957, 13107, 6199, 1624>>>>, <<-511, <<12450, 8344, 7710, 1970>>>>,
    <<-511, <<13306, 6027, 2471, 1195>>>>, <<-512, <<8630, 15179, 12963, 1449>>>>, <<-513, <<5493, 6462, 11234, 1758>>>>,
    <<-513, <<9351, 4367, 11416, 1066>>>>, <<-514, <<6950, 14225, 15869, 1293>>>>, <<-515, <<1083, 3300, 10867, 1569>>>>,
    <<-516, <<6372, 8802, 1602, 1904>>>>, <<-516, <<35, 6650, 14642, 1154>>>>, <<-517, <<8653, 7846, 15677, 1400>>>>,
    <<-518, <<12374, 1043, 7317, 1699>>>>, <<-518, <<15133, 12844, 12557, 1030>>>>, <<-519, <<4382, 15060, 6273, 1250>>>>,
    <<-520, <<5147, 7709, 12962, 1516>>>>, <<-521, <<15462, 70, 15740, 1839>>>>, <<-521, <<8492, 5271, 16262, 1115>>>>,
    <<-522, <<15211, 7643, 12573, 1353>>>>, <<-523, <<11520, 4316, 3324, 1642>>>>, <<-524, <<3355, 10600, 1520, 1992>>>>,
    <<-524, <<15842, 12940, 4347, 1208>>>>, <<-525, <<13161, 8157, 11468, 1465>>>>, <<-526, <<8603, 1546, 16121, 1777>>>>,
    <<-526, <<12363, 12585, 6582, 1078>>>>, <<-527, <<13000, 1608, 2744, 1308>>>>, <<-528, <<11537, 12899, 14538, 1586>>>>,
    <<-529, <<4081, 15389, 16247, 1924>>>>, <<-529, <<293, 4224, 9281, 1167>>>>, <<-530, <<7312, 7112, 5402, 1416>>>>,
    <<-531, <<9628, 9024, 1553, 1718>>>>, <<-531, <<11491, 9911, 1264, 1042>>>>, <<-532, <<11241, 2628, 1696, 1264>>>>,
    <<-533, <<13842, 8546, 7128, 1533>>>>, <<-534, <<10790, 9990, 2470, 1860>>>>, <<-534, <<14202, 6422, 3907, 1128>>>>,
    <<-535, <<8982, 8777, 10198, 1368>>>>, <<-536, <<5000, 4532, 3653, 1660>>>>, <<-537, <<11795, 1637, 15602, 2013>>>>,
    <<-537, <<12593, 16182, 8581, 1221>>>>, <<-538, <<725, 3213, 12833, 1481>>>>, <<-539, <<10045, 4972, 8093, 1797>>>>,
    <<-539, <<6134, 10378, 3853, 1090>>>>, <<-540, <<3905, 824, 8555, 1322>>>>, <<-541, <<7690, 16085, 4922, 1604>>>>,
    <<-542, <<404, 11753, 1881, 1946>>>>, <<-542, <<15114, 7650, 6198, 1180>>>>, <<-543, <<677, 2889, 14275, 1431>>>>,
    <<-544, <<10566, 11158, 15526, 1736>>>>, <<-544, <<13806, 14856, 8388, 1053>>>>, <<-545, <<10616, 2271, 15969, 1277>>>>,
    <<-546, <<1154, 14352, 4286, 1550>>>>, <<-547, <<562, 1024, 9215, 1880>>>>, <<-547, <<7170, 1244, 10138, 1140>>>>,
    <<-548, <<335, 4871, 10494, 1383>>>>, <<-549, <<13047, 55, 7222, 1678>>>>, <<-550, <<8100, 8588, 845, 2036>>>>,
    <<-550, <<8225, 13658, 15199, 1234>>>>, <<-551, <<15119, 6644, 705, 1498>>>>, <<-552, <<4384, 1525, 3573, 1817>>>>,
    <<-552, <<5734, 15627, 3251, 1102>>>>, <<-553, <<3113, 12057, 562, 1337>>>>, <<-554, <<9963, 12520, 14821, 1621>>>>,
    <<-555, <<2004, 1484, 7697, 1967>>>>, <<-555, <<12993, 557, 5419, 1193>>>>, <<-556, <<12002, 539, 9558, 1447>>>>,
    <<-557, <<14805, 3987, 121, 1756>>>>, <<-557, <<11289, 50, 1185, 1065>>>>, <<-558, <<12182, 15099, 16351, 1291>>>>,
    <<-559, <<12881, 6035, 4470, 1567>>>>, <<-560, <<14673, 3165, 3245, 1901>>>>, <<-560, <<1291, 8718, 2210, 1153>>>>,
    <<-561, <<12295, 934, 13490, 1398>>>>, <<-562, <<2582, 16278, 14065, 1696>>>>, <<-562, <<5569, 358, 3223, 1029>>>>,
    <<-563, <<13747, 7924, 7843, 1248>>>>, <<-564, <<7525, 14011, 7884, 1514>>>>, <<-565, <<8746, 15601, 2598, 1837>>>>,
    <<-565, <<694, 1214, 4801, 1114>>>>, <<-566, <<559, 7761, 11563, 1351>>>>, <<-567, <<3501, 7977, 11501, 1639>>>>,
    <<-568, <<10645, 11967, 967, 1989>>>>, <<-568, <<6517, 3834, 6968, 1206>>>>, <<-569, <<2723, 10880, 7665, 1463>>>>,
    <<-570, <<6313, 7052, 4526, 1775>>>>, <<-570, <<2786, 7411, 12443, 1076>>>>, <<-571, <<374, 14322, 2871, 1306>>>>,
    <<-572, <<15315, 3179, 7712, 1584>>>>, <<-573, <<12230, 4419, 985, 1922>>>>, <<-573, <<15553, 3016, 12917, 1165>>>>,
    <<-574, <<16292, 7247, 2831, 1414>>>>, <<-575, <<14934, 3061, 7837, 1715>>>>, <<-575, <<10081, 10287, 8031, 1040>>>>,
    <<-576, <<12825, 6240, 2923, 1262>>>>, <<-577, <<2728, 10191, 1635, 1531>>>>, <<-578, <<6258, 12982, 5209, 1857>>>>,
    <<-578, <<13510, 9752, 8524, 1126>>>>, <<-579, <<4701, 14632, 8817, 1366>>>>, <<-580, <<6660, 14403, 11380, 1657>>>>,
    <<-581, <<7138, 12544, 14503, 2010>>>>, <<-581, <<9978, 10146, 10871, 1219>>>>, <<-582, <<4692, 1086, 8629, 1479>>>>,
    <<-583, <<12458, 13810, 12395, 1794>>>>, <<-583, <<14825, 991, 9419, 1088>>>>, <<-584, <<3259, 10835, 8324, 1320>>>>,
    <<-585, <<8645, 14950, 14045, 1601>>>>, <<-586, <<12782, 28, 2476, 1943>>>>, <<-586, <<2630, 11857, 9514, 1178>>>>,
    <<-587, <<5801, 6648, 11316, 1429>>>>, <<-588, <<11699, 15034, 4955, 1734>>>>, <<-588, <<10298, 10125, 14870, 1051>>>>,
    <<-589, <<7487, 4235, 466, 1276>>>>, <<-590, <<4113, 2213, 14758, 1547>>>>, <<-591, <<3604, 15596, 11444, 1877>>>>,
    <<-591, <<2228, 6181, 14446, 1138>>>>, <<-592, <<10579, 15362, 8738, 1381>>>>, <<-593, <<16037, 838, 14495, 1675>>>>,
    <<-594, <<5832, 12897, 15579, 2032>>>>, <<-594, <<1640, 370, 771, 1233>>>>, <<-595, <<9799, 9442, 12479, 1495>>>>,
    <<-596, <<9120, 8097, 7383, 1814>>>>, <<-596, <<10214, 14482, 8518, 1100>>>>, <<-597, <<11967, 4125, 16354, 1334>>>>,
    <<-598, <<12587, 7394, 7121, 1619>>>>, <<-599, <<0, 8939, 7758, 1964>>>>, <<-599, <<805, 1858, 8412, 1191>>>>,
    <<-600, <<9323, 3742, 6207, 1445>>>>, <<-601, <<10535, 15052, 5458, 1753>>>>, <<-601, <<51, 4454, 7378, 1063>>>>,
    <<-602, <<1651, 2344, 499, 1290>>>>, <<-603, <<5888, 2937, 14517, 1564>>>>, <<-604, <<15822, 3291, 4960, 1898>>>>,
    <<-604, <<684, 8878, 6206, 1151>>>>, <<-605, <<6010, 14231, 11355, 1396>>>>, <<-606, <<967, 8172, 4495, 1694>>>>,
    <<-606, <<4927, 6991, 10311, 1027>>>>, <<-607, <<13837, 9176, 9460, 1246>>>>, <<-608, <<9260, 14331, 2864, 1512>>>>,
    <<-609, <<12283, 13349, 5911, 1834>>>>, <<-609, <<4513, 3798, 9766, 1112>>>>, <<-610, <<6215, 15092, 10604, 1349>>>>,
    <<-611, <<12185, 1811, 3357, 1637>>>>, <<-612, <<11573, 8343, 490, 1986>>>>, <<-612, <<11606, 9662, 9634, 1204>>>>,
    <<-613, <<4246, 8581, 3918, 1461>>>>, <<-614, <<11842, 5343, 9383, 1772>>>>, <<-614, <<13538, 1859, 1961, 1075>>>>,
    <<-615, <<15121, 5860, 3049, 1304>>>>, <<-616, <<968, 14733, 945, 1582>>>>, <<-617, <<8398, 12220, 2179, 1919>>>>,
    <<-617, <<5268, 7791, 213, 1164>>>>, <<-618, <<6312, 4394, 314, 1412>>>>, <<-619, <<4526, 1752, 14186, 1712>>>>,
    <<-619, <<9844, 4056, 14838, 1038>>>>, <<-620, <<2866, 10398, 4198, 1260>>>>, <<-621, <<3734, 16215, 12584, 1528>>>>,
    <<-622, <<3350, 10761, 8019, 1854>>>>, <<-622, <<4016, 10964, 13184, 1124>>>>, <<-623, <<6684, 4181, 7489, 1364>>>>,
    <<-624, <<16242, 9282, 2787, 1655>>>>, <<-625, <<8335, 15684, 13481, 2007>>>>, <<-625, <<6475, 10915, 13207, 1217>>>>,
    <<-626, <<16240, 3950, 4481, 1477>>>>, <<-627, <<6818, 11196, 382, 1792>>>>, <<-627, <<11183, 14979, 15025, 1086>>>>,
    <<-628, <<6568, 8608, 8144, 1318>>>>, <<-629, <<244, 13161, 6845, 1599>>>>, <<-630, <<3048, 3841, 3144, 1940>>>>,
    <<-630, <<15848, 13636, 12875, 1176>>>>, <<-631, <<671, 710, 8412, 1427>>>>, <<-632, <<13288, 2532, 10835, 1731>>>>,
    <<-632, <<6164, 5906, 5008, 1050>>>>, <<-633, <<2203, 15380, 1395, 1274>>>>, <<-634, <<11445, 4929, 8904, 1545>>>>,
    <<-635, <<14813, 4894, 13746, 1874>>>>, <<-635, <<12431, 322, 2414, 1137>>>>, <<-636, <<4200, 2514, 7036, 1379>>>>,
    <<-637, <<5111, 14356, 5447, 1673>>>>, <<-638, <<11673, 6813, 14007, 2029>>>>, <<-638, <<5543, 2231, 2773, 1231>>>>,
    <<-639, <<7057, 10970, 7926, 1493>>>>, <<-640, <<14513, 15496, 11262, 1811>>>>, <<-640, <<111, 11392, 13827, 1098>>>>,
    <<-641, <<2701, 9375, 15812, 1332>>>>, <<-642, <<307, 12574, 15866, 1616>>>>, <<-643, <<3935, 12457, 7894, 1961>>>>,
    <<-643, <<7707, 8795, 11450, 1189>>>>, <<-644, <<7176, 7029, 2911, 1443>>>>, <<-645, <<3527, 5221, 10863, 1750>>>>,
    <<-645, <<4423, 182, 13612, 1061>>>>, <<-646, <<10787, 7499, 1079, 1288>>>>, <<-647, <<9116, 8900, 8239, 1562>>>>,
    <<-648, <<7062, 7375, 6747, 1895>>>>, <<-648, <<15537, 6034, 10246, 1149>>>>, <<-649, <<2019, 13640, 9274, 1394>>>>,
    <<-650, <<2525, 7882, 11373, 1691>>>>, <<-650, <<8192, 15382, 1054, 1026>>>>, <<-651, <<13253, 1246, 11125, 1244>>>>,
    <<-652, <<8710, 7231, 14286, 1509>>>>, <<-653, <<1433, 7955, 9294, 1831>>>>, <<-653, <<1733, 11966, 14773, 1110>>>>,
    <<-654, <<7718, 11970, 9697, 1347>>>>, <<-655, <<3891, 647, 11659, 1634>>>>, <<-656, <<9355, 14223, 88, 1983>>>>,
    <<-656, <<4609, 12896, 12346, 1202>>>>, <<-657, <<7650, 16255, 226, 1459>>>>, <<-658, <<14356, 11118, 14307, 1769>>>>,
    <<-658, <<6016, 11293, 7903, 1073>>>>, <<-659, <<3499, 7753, 3276, 1302>>>>, <<-660, <<8081, 13286, 10623, 1579>>>>,
    <<-661, <<8388, 4198, 3447, 1916>>>>, <<-661, <<2318, 1056, 3938, 1162>>>>, <<-662, <<14003, 13592, 14234, 1409>>>>,
    <<-663, <<13109, 3466, 4216, 1710>>>>, <<-663, <<12363, 6614, 5300, 1037>>>>, <<-664, <<6212, 13902, 5521, 1258>>>>,
    <<-665, <<2052, 8781, 7208, 1526>>>>, <<-666, <<8324, 1563, 10900, 1851>>>>, <<-666, <<8053, 8987, 1503, 1123>>>>,
    <<-667, <<4798, 8895, 6212, 1362>>>>, <<-668, <<319, 3981, 10641, 1652>>>>, <<-669, <<8713, 9148, 12536, 2004>>>>,
    <<-669, <<1129, 947, 15590, 1215>>>>, <<-670, <<5580, 10402, 389, 1475>>>>, <<-671, <<8265, 11809, 4821, 1789>>>>,
    <<-671, <<1095, 2156, 4290, 1085>>>>, <<-672, <<574, 9274, 8014, 1316>>>>, <<-673, <<136, 9196, 16090, 1596>>>>,
    <<-674, <<3442, 4961, 3886, 1937>>>>, <<-674, <<3020, 11871, 16281, 1174>>>>, <<-675, <<9528, 100, 5562, 1425>>>>,
    <<-676, <<2521, 4774, 396, 1729>>>>, <<-676, <<4028, 1200, 11570, 1048>>>>, <<-677, <<1390, 1726, 2374, 1272>>>>,
    <<-678, <<9092, 4647, 3109, 1543>>>>, <<-679, <<2842, 16289, 16118, 1871>>>>, <<-679, <<14413, 15355, 6808, 1135>>>>,
    <<-680, <<608, 14166, 5385, 1377>>>>, <<-681, <<7082, 6248, 12848, 1670>>>>, <<-682, <<2332, 4791, 12512, 2026>>>>,
    <<-682, <<6467, 1687, 4822, 1229>>>>, <<-683, <<2318, 9808, 3430, 1491>>>>, <<-684, <<4691, 5616, 15211, 1808>>>>,
    <<-684, <<7644, 5310, 2794, 1097>>>>, <<-685, <<15505, 10153, 15321, 1330>>>>, <<-686, <<11029, 10136, 8289, 1614>>>>,
    <<-687, <<6804, 10173, 8105, 1958>>>>, <<-687, <<11015, 3854, 14534, 1187>>>>, <<-688, <<16199, 9027, 16054, 1440>>>>,
    <<-689, <<11708, 5596, 16334, 1747>>>>, <<-689, <<9701, 2609, 3502, 1060>>>>, <<-690, <<8615, 12957, 1708, 1286>>>>,
    <<-691, <<8747, 6055, 2021, 1560>>>>, <<-692, <<12865, 13613, 8606, 1892>>>>, <<-692, <<8284, 15479, 14329, 1147>>>>,
    <<-693, <<14313, 14218, 7246, 1392>>>>, <<-694, <<11385, 13799, 1931, 1689>>>>, <<-694, <<3253, 8172, 8221, 1024>>>>,
    <<-695, <<709, 15719, 12836, 1242>>>>, <<-696, <<7348, 7659, 9381, 1507>>>>, <<-697, <<11473, 14059, 12746, 1828>>>>,
    <<-697, <<1927, 8277, 3439, 1109>>>>, <<-698, <<12635, 13497, 8841, 1345>>>>, <<-699, <<2221, 2929, 3639, 1632>>>>,
    <<-700, <<10635, 11337, 16146, 1979>>>>, <<-700, <<5498, 12391, 15104, 1200>>>>, <<-701, <<3670, 16131, 12974, 1456>>>>,
    <<-702, <<10546, 6310, 2915, 1767>>>>, <<-702, <<13597, 1922, 13887, 1071>>>>, <<-703, <<8255, 2376, 3553, 1300>>>>,
    <<-704, <<278, 13722, 3977, 1577>>>>, <<-705, <<6089, 11299, 4787, 1913>>>>, <<-705, <<2248, 14474, 7706, 1160>>>>,
    <<-706, <<11540, 734, 11825, 1407>>>>, <<-707, <<16015, 6578, 10695, 1707>>>>, <<-707, <<8252, 591, 12186, 1035>>>>,
    <<-708, <<12391, 15556, 6892, 1256>>>>, <<-709, <<5055, 2821, 1890, 1524>>>>, <<-710, <<5908, 12, 13851, 1848>>>>,
    <<-710, <<8544, 2754, 6249, 1121>>>>, <<-711, <<5587, 11094, 4987, 1360>>>>, <<-712, <<13478, 13309, 2173, 1650>>>>,
    <<-713, <<89, 7414, 11667, 2001>>>>, <<-713, <<3367, 11853, 1634, 1214>>>>, <<-714, <<10002, 2653, 12738, 1472>>>>,
    <<-715, <<7128, 13948, 9328, 1786>>>>, <<-715, <<124, 10641, 9979, 1083>>>>, <<-716, <<1326, 11580, 7934, 1314>>>>,
    <<-717, <<12764, 1536, 9012, 1594>>>>, <<-718, <<8381, 1546, 4702, 1934>>>>, <<-718, <<6744, 5442, 3348, 1173>>>>,
    <<-719, <<8206, 3464, 2766, 1423>>>>, <<-720, <<7672, 3730, 6407, 1726>>>>, <<-720, <<14790, 11393, 1787, 1047>>>>,
    <<-721, <<8179, 11215, 3400, 1270>>>>, <<-722, <<4453, 16283, 13756, 1540>>>>, <<-723, <<11261, 15230, 2178, 1869>>>>,
    <<-723, <<12925, 1048, 11247, 1133>>>>, <<-724, <<1759, 16240, 3787, 1375>>>>, <<-725, <<9055, 7694, 3928, 1668>>>>,
    <<-726, <<4211, 4902, 11094, 2023>>>>, <<-726, <<5001, 13953, 6917, 1227>>>>, <<-727, <<8571, 4537, 15375, 1488>>>>,
    <<-728, <<8134, 9503, 2844, 1806>>>>, <<-728, <<10565, 11578, 8186, 1095>>>>, <<-729, <<4844, 5196, 14881, 1328>>>>,
    <<-730, <<5535, 14931, 773, 1612>>>>, <<-731, <<1935, 225, 8391, 1955>>>>, <<-731, <<185, 2290, 1279, 1186>>>>,
    <<-732, <<12854, 8367, 12868, 1438>>>>, <<-733, <<13063, 14516, 5487, 1745>>>>, <<-733, <<13972, 10727, 9816, 1058>>>>,
    <<-734, <<11103, 1110, 2387, 1284>>>>, <<-735, <<9695, 9302, 12246, 1557>>>>, <<-736, <<2956, 3823, 10538, 1889>>>>,
    <<-736, <<2555, 3352, 2073, 1146>>>>, <<-737, <<5960, 14643, 5271, 1390>>>>, <<-738, <<5853, 7934, 8938, 1686>>>>,
    <<-739, <<4675, 1540, 14470, 2045>>>>, <<-739, <<12084, 2259, 14596, 1240>>>>, <<-740, <<11971, 14181, 4533, 1505>>>>,
    <<-741, <<8284, 13540, 16268, 1825>>>>, <<-741, <<8256, 8060, 8531, 1107>>>>, <<-742, <<11354, 2010, 8037, 1343>>>>,
    <<-743, <<3621, 7105, 12065, 1629>>>>, <<-744, <<13515, 14186, 15895, 1976>>>>, <<-744, <<13332, 7005, 1524, 1199>>>>,
    <<-745, <<3102, 6823, 9394, 1454>>>>, <<-746, <<8984, 5622, 7974, 1764>>>>, <<-746, <<15628, 5496, 3527, 1070>>>>,
    <<-747, <<6350, 4878, 3879, 1298>>>>, <<-748, <<12220, 14539, 13775, 1574>>>>, <<-749, <<10963, 15319, 6200, 1910>>>>,
    <<-749, <<12090, 14173, 11519, 1158>>>>, <<-750, <<1387, 13633, 9468, 1405>>>>, <<-751, <<15768, 9464, 855, 1705>>>>,
    <<-751, <<15328, 1385, 2727, 1034>>>>, <<-752, <<7079, 14166, 8311, 1254>>>>, <<-753, <<5276, 13270, 13013, 1521>>>>,
    <<-754, <<10230, 4349, 488, 1846>>>>, <<-754, <<14502, 7582, 11037, 1119>>>>, <<-755, <<15832, 9484, 3814, 1358>>>>,
    <<-756, <<4125, 2932, 10153, 1647>>>>, <<-757, <<5964, 8577, 10874, 1998>>>>, <<-757, <<4443, 9711, 4109, 1212>>>>,
    <<-758, <<2388, 12072, 8758, 1470>>>>, <<-759, <<2533, 15914, 13903, 1783>>>>, <<-759, <<15465, 6635, 15710, 1081>>>>,
    <<-760, <<8279, 14276, 7904, 1312>>>>, <<-761, <<15330, 5050, 1994, 1592>>>>, <<-762, <<9587, 8141, 5591, 1931>>>>,
    <<-762, <<16161, 9618, 6843, 1171>>>>, <<-763, <<6716, 9448, 24, 1421>>>>, <<-764, <<15692, 14143, 12483, 1723>>>>,
    <<-764, <<10009, 2723, 8429, 1045>>>>, <<-765, <<6739, 9872, 4475, 1268>>>>, <<-766, <<10310, 5603, 8079, 1538>>>>,
    <<-767, <<1194, 16326, 4693, 1866>>>>, <<-767, <<5190, 5475, 15728, 1131>>>>, <<-768, <<11590, 7428, 2242, 1373>>>>,
    <<-769, <<840, 724, 11456, 1665>>>>, <<-770, <<9876, 5222, 9753, 2020>>>>, <<-770, <<12672, 5093, 9060, 1225>>>>,
    <<-771, <<12753, 10126, 10992, 1486>>>>, <<-772, <<15677, 9056, 6930, 1803>>>>, <<-772, <<11285, 12770, 13620, 1093>>>>,
    <<-773, <<8909, 9622, 14491, 1326>>>>, <<-774, <<909, 9041, 9703, 1609>>>>, <<-775, <<10294, 13520, 8750, 1952>>>>,
    <<-775, <<8358, 2973, 4453, 1184>>>>, <<-776, <<9955, 3680, 9737, 1436>>>>, <<-777, <<13291, 13937, 11091, 1742>>>>,
    <<-777, <<3736, 7146, 16171, 1056>>>>, <<-778, <<14301, 3505, 3114, 1282>>>>, <<-779, <<6694, 776, 6147, 1555>>>>,
    <<-780, <<10718, 8974, 12541, 1886>>>>, <<-780, <<15012, 1330, 6244, 1144>>>>, <<-781, <<6885, 13591, 3349, 1388>>>>,
    <<-782, <<3897, 5066, 16009, 1683>>>>, <<-783, <<15877, 790, 12575, 2042>>>>, <<-783, <<12575, 8840, 18, 1239>>>>,
    <<-784, <<12603, 8982, 16127, 1502>>>>, <<-785, <<1588, 4661, 3476, 1823>>>>, <<-785, <<15772, 10262, 13665, 1105>>>>,
    <<-786, <<9472, 8999, 7283, 1341>>>>, <<-787, <<10902, 11625, 4169, 1627>>>>, <<-788, <<1012, 4507, 15720, 1973>>>>,
    <<-788, <<6813, 11983, 4373, 1197>>>>, <<-789, <<1788, 3332, 5869, 1452>>>>, <<-790, <<9250, 7376, 13100, 1761>>>>,
    <<-790, <<231, 4614, 9592, 1068>>>>, <<-791, <<2353, 14024, 4254, 1296>>>>, <<-792, <<518, 14242, 7249, 1572>>>>,
    <<-793, <<11373, 14442, 7686, 1907>>>>, <<-793, <<581, 15437, 15376, 1156>>>>, <<-794, <<5844, 1799, 7166, 1403>>>>,
    <<-795, <<1990, 10503, 7464, 1702>>>>, <<-795, <<9157, 8014, 9691, 1032>>>>, <<-796, <<6395, 8538, 9778, 1252>>>>,
    <<-797, <<548, 5913, 7811, 1519>>>>, <<-798, <<10979, 12819, 3579, 1843>>>>, <<-798, <<13235, 6023, 15868, 1117>>>>,
    <<-799, <<8035, 2775, 2693, 1356>>>>, <<-800, <<4852, 4049, 1811, 1645>>>>, <<-801, <<14417, 10737, 10157, 1995>>>>,
    <<-801, <<6519, 9752, 6630, 1210>>>>, <<-802, <<8426, 4491, 4835, 1468>>>>, <<-803, <<5018, 16010, 2162, 1781>>>>,
    <<-803, <<808, 5496, 5098, 1080>>>>, <<-804, <<2596, 16115, 7924, 1310>>>>, <<-805, <<5694, 1840, 11421, 1589>>>>,
    <<-806, <<13358, 6525, 6554, 1928>>>>, <<-806, <<14897, 6902, 10383, 1169>>>>, <<-807, <<15358, 316, 13721, 1418>>>>,
    <<-808, <<6206, 1607, 2242, 1721>>>>, <<-808, <<901, 6963, 15110, 1043>>>>, <<-809, <<13277, 12874, 5598, 1266>>>>,
    <<-810, <<7390, 3913, 2460, 1536>>>>, <<-811, <<9011, 1416, 7280, 1863>>>>, <<-811, <<79, 11175, 3868, 1130>>>>,
    <<-812, <<16141, 2809, 749, 1371>>>>, <<-813, <<448, 137, 2663, 1663>>>>, <<-814, <<8741, 3830, 8489, 2017>>>>,
    <<-814, <<4906, 6711, 11249, 1223>>>>, <<-815, <<14789, 8777, 6666, 1484>>>>, <<-816, <<9149, 2561, 11085, 1800>>>>,
    <<-816, <<7087, 7846, 2712, 1092>>>>, <<-817, <<11850, 5786, 14152, 1324>>>>, <<-818, <<1720, 7319, 2310, 1607>>>>,
    <<-819, <<2410, 15435, 9184, 1949>>>>, <<-819, <<15487, 4778, 7672, 1182>>>>, <<-820, <<5302, 9984, 6660, 1434>>>>,
    <<-821, <<5552, 2202, 378, 1740>>>>, <<-821, <<9382, 7243, 6182, 1055>>>>, <<-822, <<11961, 2539, 3890, 1280>>>>,
    <<-823, <<12718, 11765, 106, 1553>>>>, <<-824, <<15119, 10889, 14616, 1883>>>>, <<-824, <<8168, 8327, 10458, 1142>>>>,
    <<-825, <<15506, 9742, 1480, 1386>>>>, <<-826, <<16032, 3593, 6760, 1681>>>>, <<-827, <<14789, 12153, 10757, 2039>>>>,
    <<-827, <<13830, 1515, 1872, 1237>>>>, <<-828, <<6356, 7017, 11394, 1500>>>>, <<-829, <<6655, 2071, 7137, 1820>>>>,
    <<-829, <<15804, 13832, 2457, 1104>>>>, <<-830, <<13039, 420, 6581, 1339>>>>, <<-831, <<14769, 14942, 12719, 1624>>>>,
    <<-832, <<3544, 13189, 15619, 1970>>>>, <<-832, <<8879, 9801, 7268, 1195>>>>, <<-833, <<14061, 4276, 2399, 1450>>>>,
    <<-834, <<4086, 9897, 1909, 1759>>>>, <<-834, <<11820, 14641, 15697, 1066>>>>, <<-835, <<2115, 12197, 4679, 1294>>>>,
    <<-836, <<7513, 11333, 783, 1570>>>>, <<-837, <<4908, 6854, 9245, 1904>>>>, <<-837, <<13971, 779, 2894, 1155>>>>,
    <<-838, <<16072, 13050, 4916, 1401>>>>, <<-839, <<11151, 8074, 14138, 1699>>>>, <<-839, <<6999, 3111, 311, 1031>>>>,
    <<-840, <<8322, 13865, 11292, 1250>>>>, <<-841, <<5387, 12072, 2666, 1517>>>>, <<-842, <<11649, 7285, 6741, 1840>>>>,
    <<-842, <<1958, 13398, 4357, 1116>>>>, <<-843, <<3649, 6060, 1623, 1354>>>>, <<-844, <<8725, 15096, 9915, 1642>>>>,
    <<-845, <<10803, 11997, 9516, 1992>>>>, <<-845, <<9570, 10825, 9197, 1208>>>>, <<-846, <<7506, 11283, 967, 1466>>>>,
    <<-847, <<125, 12543, 6873, 1778>>>>, <<-847, <<15273, 6193, 10911, 1078>>>>, <<-848, <<13619, 15849, 7994, 1308>>>>,
    <<-849, <<6286, 6777, 4524, 1587>>>>, <<-850, <<3390, 11249, 7590, 1925>>>>, <<-850, <<13787, 12565, 13967, 1167>>>>,
    <<-851, <<12615, 7488, 11087, 1416>>>>, <<-852, <<600, 13636, 8449, 1718>>>>, <<-852, <<9460, 6735, 5447, 1042>>>>,
    <<-853, <<3494, 2634, 6770, 1264>>>>, <<-854, <<13703, 9751, 13283, 1533>>>>, <<-855, <<13799, 1497, 9937, 1860>>>>,
    <<-855, <<274, 689, 8436, 1128>>>>, <<-856, <<1608, 1080, 15692, 1368>>>>, <<-857, <<10852, 4351, 10317, 1660>>>>,
    <<-858, <<7420, 15191, 7301, 2014>>>>, <<-858, <<4123, 1258, 13485, 1221>>>>, <<-859, <<7793, 15463, 2396, 1482>>>>,
    <<-860, <<15879, 4688, 15308, 1797>>>>, <<-860, <<3728, 12151, 8229, 1090>>>>, <<-861, <<16237, 8812, 13863, 1322>>>>,
    <<-862, <<777, 8237, 11362, 1604>>>>, <<-863, <<13473, 4114, 9693, 1946>>>>, <<-863, <<13248, 6581, 10936, 1180>>>>,
    <<-864, <<13319, 9530, 3638, 1432>>>>, <<-865, <<13632, 10423, 6114, 1737>>>>, <<-865, <<4718, 10016, 12617, 1053>>>>,
    <<-866, <<13479, 13378, 4714, 1278>>>>, <<-867, <<14444, 8025, 10509, 1550>>>>, <<-868, <<9482, 7777, 379, 1881>>>>,
    <<-868, <<3602, 6871, 14716, 1140>>>>, <<-869, <<11945, 1779, 16048, 1383>>>>, <<-870, <<7449, 1918, 13959, 1678>>>>,
    <<-871, <<3584, 921, 9018, 2036>>>>, <<-871, <<9912, 11876, 3772, 1235>>>>, <<-872, <<5861, 6858, 6718, 1498>>>>,
    <<-873, <<8296, 4040, 10867, 1817>>>>, <<-873, <<5944, 1336, 7676, 1102>>>>, <<-874, <<8768, 7768, 5929, 1337>>>>,
    <<-875, <<13400, 15511, 4947, 1622>>>>, <<-876, <<15947, 5590, 15594, 1967>>>>, <<-876, <<4149, 15707, 10208, 1193>>>>,
    <<-877, <<3894, 8278, 15368, 1447>>>>, <<-878, <<11652, 11511, 7169, 1756>>>>, <<-878, <<8681, 1797, 5460, 1065>>>>,
    <<-879, <<7853, 14550, 5153, 1292>>>>, <<-880, <<15738, 4320, 10761, 1567>>>>, <<-881, <<7373, 7127, 10876, 1901>>>>,
    <<-881, <<8965, 1871, 6839, 1153>>>>, <<-882, <<3525, 13287, 2720, 1399>>>>, <<-883, <<15850, 562, 4493, 1697>>>>,
    <<-883, <<16300, 2079, 7354, 1029>>>>, <<-884, <<3733, 12574, 12854, 1248>>>>, <<-885, <<8629, 13921, 13963, 1514>>>>,
    <<-886, <<5255, 2381, 9973, 1837>>>>, <<-886, <<4410, 12260, 9273, 1114>>>>, <<-887, <<6481, 1667, 605, 1352>>>>,
    <<-888, <<16301, 1743, 1699, 1640>>>>, <<-889, <<15437, 10461, 8951, 1989>>>>, <<-889, <<6196, 11781, 11810, 1206>>>>,
    <<-890, <<12756, 14669, 13539, 1463>>>>, <<-891, <<616, 3821, 11652, 1775>>>>, <<-891, <<11197, 7703, 381, 1077>>>>,
    <<-892, <<1520, 12236, 8114, 1306>>>>, <<-893, <<6955, 1968, 14072, 1584>>>>, <<-894, <<13474, 4096, 8700, 1922>>>>,
    <<-894, <<3147, 9113, 1212, 1166>>>>, <<-895, <<11348, 13232, 8507, 1414>>>>, <<-896, <<8504, 15827, 14722, 1715>>>>,
    <<-896, <<13258, 1049, 12208, 1040>>>>, <<-897, <<7115, 10716, 7989, 1262>>>>, <<-898, <<4471, 5276, 7781, 1531>>>>,
    <<-899, <<9362, 14800, 12664, 1857>>>>, <<-899, <<1942, 5712, 13046, 1126>>>>, <<-900, <<3104, 937, 14303, 1366>>>>,
    <<-901, <<13530, 11788, 1650, 1658>>>>, <<-902, <<13256, 4621, 6191, 2011>>>>, <<-902, <<10483, 3956, 15767, 1219>>>>,
    <<-903, <<13045, 12389, 14567, 1479>>>>, <<-904, <<4466, 13729, 3215, 1795>>>>, <<-904, <<930, 8264, 13788, 1088>>>>,
    <<-905, <<5925, 1059, 13625, 1320>>>>, <<-906, <<13851, 10268, 4091, 1602>>>>, <<-907, <<2452, 10476, 10275, 1943>>>>,
    <<-907, <<5869, 7259, 14245, 1178>>>>, <<-908, <<16218, 957, 671, 1430>>>>, <<-909, <<14167, 4181, 11917, 1734>>>>,
    <<-909, <<4185, 14462, 2708, 1052>>>>, <<-910, <<8833, 2039, 5588, 1276>>>>, <<-911, <<16299, 4465, 4587, 1548>>>>,
    <<-912, <<8856, 14232, 2597, 1878>>>>, <<-912, <<3136, 12261, 2633, 1139>>>>, <<-913, <<11293, 4769, 14284, 1381>>>>,
    <<-914, <<4657, 14827, 4837, 1676>>>>, <<-915, <<6182, 14308, 7355, 2033>>>>, <<-915, <<4138, 5980, 5720, 1233>>>>,
    <<-916, <<12087, 7080, 2099, 1496>>>>, <<-917, <<10392, 8839, 14666, 1814>>>>, <<-917, <<12197, 4492, 12936, 1100>>>>,
    <<-918, <<15829, 13386, 5328, 1335>>>>, <<-919, <<11564, 11789, 13621, 1619>>>>, <<-920, <<11832, 12608, 15643, 1964>>>>,
    <<-920, <<10981, 12181, 13194, 1191>>>>, <<-921, <<4984, 13959, 12008, 1445>>>>, <<-922, <<9052, 10549, 12496, 1753>>>>,
    <<-922, <<4250, 14220, 11646, 1063>>>>, <<-923, <<4313, 3471, 5677, 1290>>>>, <<-924, <<11814, 8097, 4414, 1565>>>>,
    <<-925, <<10411, 13453, 12579, 1898>>>>, <<-925, <<3890, 1231, 10828, 1151>>>>, <<-926, <<9181, 1177, 578, 1397>>>>,
    <<-927, <<12227, 2737, 11296, 1694>>>>, <<-927, <<4470, 3941, 14436, 1027>>>>, <<-928, <<3355, 3477, 14464, 1246>>>>,
    <<-929, <<1191, 10020, 8934, 1512>>>>, <<-930, <<3994, 12743, 13274, 1834>>>>, <<-930, <<4727, 1550, 14232, 1112>>>>,
    <<-931, <<6018, 4695, 16022, 1349>>>>, <<-932, <<13447, 11583, 9928, 1637>>>>, <<-933, <<11494, 4238, 8462, 1986>>>>,
    <<-933, <<6425, 11472, 14469, 1204>>>>, <<-934, <<5091, 13258, 9783, 1461>>>>, <<-935, <<11850, 4539, 114, 1773>>>>,
    <<-935, <<4936, 9001, 6276, 1075>>>>, <<-936, <<7982, 4031, 8284, 1304>>>>, <<-937, <<4832, 2290, 7296, 1582>>>>,
    <<-938, <<5027, 16008, 9882, 1919>>>>, <<-938, <<710, 11820, 4885, 1164>>>>, <<-939, <<7816, 16203, 5981, 1412>>>>,
    <<-940, <<1418, 6550, 4677, 1713>>>>, <<-940, <<2388, 5300, 2624, 1039>>>>, <<-941, <<11061, 3152, 9257, 1260>>>>,
    <<-942, <<4246, 5414, 2337, 1529>>>>, <<-943, <<1347, 6790, 15463, 1854>>>>, <<-943, <<13898, 8788, 1315, 1125>>>>,
    <<-944, <<5625, 1081, 12966, 1364>>>>, <<-945, <<12969, 4487, 9431, 1655>>>>, <<-946, <<9311, 2976, 5157, 2008>>>>,
    <<-946, <<3078, 13646, 1711, 1218>>>>, <<-947, <<11377, 14533, 10410, 1477>>>>, <<-948, <<5256, 11591, 7575, 1792>>>>,
    <<-948, <<6274, 11533, 3004, 1087>>>>, <<-949, <<10231, 14037, 13436, 1318>>>>, <<-950, <<14466, 11890, 13265, 1599>>>>,
    <<-951, <<15555, 16286, 10931, 1940>>>>, <<-951, <<7736, 5690, 1215, 1177>>>>, <<-952, <<14172, 15673, 14141, 1427>>>>,
    <<-953, <<14710, 14594, 1401, 1732>>>>, <<-953, <<13409, 3196, 9224, 1050>>>>, <<-954, <<16098, 75, 6510, 1274>>>>,
    <<-955, <<12680, 15997, 15107, 1545>>>>, <<-956, <<13509, 12084, 4887, 1875>>>>, <<-956, <<899, 7030, 6978, 1137>>>>,
    <<-957, <<8527, 1014, 12573, 1379>>>>, <<-958, <<3011, 7958, 12164, 1673>>>>, <<-959, <<9844, 1229, 5771, 2030>>>>,
    <<-959, <<15229, 15421, 7714, 1231>>>>, <<-960, <<12026, 6261, 13921, 1493>>>>, <<-961, <<13995, 14742, 2150, 1812>>>>,
    <<-961, <<5079, 5871, 1854, 1099>>>>, <<-962, <<5542, 16006, 4778, 1333>>>>, <<-963, <<2962, 2236, 5973, 1617>>>>,
    <<-964, <<13478, 15989, 15767, 1961>>>>, <<-964, <<2461, 14475, 16225, 1189>>>>, <<-965, <<5264, 3561, 8704, 1443>>>>,
    <<-966, <<2190, 5343, 1506, 1751>>>>, <<-966, <<5007, 1746, 1490, 1062>>>>, <<-967, <<3681, 10500, 6249, 1288>>>>,
    <<-968, <<3180, 4791, 14511, 1562>>>>, <<-969, <<2591, 7643, 14355, 1895>>>>, <<-969, <<13402, 14147, 14860, 1149>>>>,
    <<-970, <<6111, 8161, 14872, 1394>>>>, <<-971, <<12400, 12987, 1779, 1692>>>>, <<-971, <<13010, 7717, 5173, 1026>>>>,
    <<-972, <<9152, 1772, 16121, 1244>>>>, <<-973, <<6159, 15313, 3962, 1510>>>>, <<-974, <<9903, 3858, 262, 1832>>>>,
    <<-974, <<15714, 12977, 2848, 1111>>>>, <<-975, <<3389, 13860, 15106, 1347>>>>, <<-976, <<11029, 10290, 1836, 1635>>>>,
    <<-977, <<9997, 7822, 8048, 1983>>>>, <<-977, <<8913, 8752, 790, 1203>>>>, <<-978, <<2358, 5659, 6083, 1459>>>>,
    <<-979, <<14901, 13012, 5027, 1770>>>>, <<-979, <<14479, 9063, 12212, 1073>>>>, <<-980, <<9340, 6379, 8503, 1302>>>>,
    <<-981, <<4256, 6238, 580, 1580>>>>, <<-982, <<1472, 12390, 11138, 1916>>>>, <<-982, <<3306, 3195, 8603, 1162>>>>,
    <<-983, <<1197, 15058, 3509, 1410>>>>, <<-984, <<7083, 558, 11081, 1710>>>>, <<-984, <<4376, 2114, 9464, 1037>>>>,
    <<-985, <<5753, 11512, 10572, 1258>>>>, <<-986, <<12205, 8711, 13335, 1526>>>>, <<-987, <<8558, 8470, 1948, 1852>>>>,
    <<-987, <<2775, 8849, 6011, 1123>>>>, <<-988, <<12942, 214, 11681, 1362>>>>, <<-989, <<16090, 13641, 890, 1653>>>>,
    <<-990, <<2653, 8346, 4199, 2005>>>>, <<-990, <<11816, 12784, 4086, 1216>>>>, <<-991, <<14289, 4105, 6310, 1475>>>>,
    <<-992, <<7476, 12954, 12003, 1789>>>>, <<-992, <<5115, 4541, 8646, 1085>>>>, <<-993, <<11859, 13725, 13298, 1316>>>>,
    <<-994, <<12560, 11581, 6116, 1597>>>>, <<-995, <<13048, 3317, 11662, 1937>>>>, <<-995, <<13234, 755, 4614, 1175>>>>,
    <<-996, <<12802, 3168, 11283, 1425>>>>, <<-997, <<13084, 7247, 7336, 1729>>>>, <<-997, <<15411, 7988, 15779, 1048>>>>,
    <<-998, <<5546, 6276, 7480, 1272>>>>, <<-999, <<16017, 8382, 9303, 1543>>>>, <<-1000, <<856, 15935, 7248, 1872>>>>,
    <<-1000, <<2235, 6480, 11366, 1135>>>>, <<-1001, <<6242, 5586, 10914, 1377>>>>, <<-1002, <<8230, 12487, 3170, 1671>>>>,
    <<-1003, <<15284, 8905, 4263, 2027>>>>, <<-1003, <<9245, 6262, 9756, 1229>>>>, <<-1004, <<11044, 2980, 9416, 1491>>>>,
    <<-1005, <<395, 3643, 6088, 1809>>>>, <<-1005, <<15089, 4426, 7198, 1097>>>>, <<-1006, <<9670, 14358, 4279, 1331>>>>,
    <<-1007, <<14879, 1696, 14770, 1614>>>>, <<-1008, <<8848, 13868, 15966, 1958>>>>, <<-1008, <<2308, 5072, 2918, 1188>>>>,
    <<-1009, <<5531, 8479, 5454, 1441>>>>, <<-1010, <<16065, 10610, 6966, 1748>>>>, <<-1010, <<10440, 12517, 7757, 1060>>>>,
    <<-1011, <<5412, 1644, 6871, 1286>>>>, <<-1012, <<864, 9299, 8283, 1560>>>>, <<-1013, <<1154, 4277, 16203, 1892>>>>,
    <<-1013, <<10490, 6759, 2553, 1148>>>>, <<-1014, <<1942, 144, 12836, 1392>>>>, <<-1015, <<7687, 13319, 8711, 1689>>>>,
    <<-1015, <<10529, 12433, 12333, 1024>>>>, <<-1016, <<3537, 6276, 1441, 1243>>>>, <<-1017, <<3620, 11981, 15432, 1507>>>>,
    <<-1018, <<13919, 6752, 3703, 1829>>>>, <<-1018, <<7710, 12718, 7891, 1109>>>>, <<-1019, <<2364, 11496, 14242, 1345>>>>,
    <<-1020, <<12068, 12693, 10190, 1632>>>>, <<-1021, <<10521, 2943, 7710, 1980>>>>, <<-1021, <<187, 2478, 3541, 1201>>>>,
    <<-1022, <<7202, 6868, 2438, 1457>>>>, <<-1023, <<2802, 11173, 10008, 1767>>>>, <<-1023, <<7868, 6870, 1805, 1072>>>>,
    <<-1024, <<8967, 1657, 8772, 1300>>>>, <<-1025, <<9597, 12309, 10308, 1577>>>>, <<-1026, <<11036, 7803, 12467, 1913>>>>,
    <<-1026, <<16105, 14900, 12364, 1160>>>>, <<-1027, <<5676, 8455, 1091, 1408>>>>, <<-1028, <<11968, 12609, 1165, 1708>>>>,
    <<-1028, <<7952, 6889, 16343, 1035>>>>, <<-1029, <<5219, 1830, 11936, 1256>>>>, <<-1030, <<10073, 13716, 8007, 1524>>>>,
    <<-1031, <<4482, 1696, 4888, 1849>>>>, <<-1031, <<13312, 4824, 10750, 1121>>>>, <<-1032, <<8646, 13425, 10447, 1360>>>>,
    <<-1033, <<6050, 4911, 8797, 1650>>>>, <<-1034, <<4196, 2439, 3318, 2002>>>>, <<-1034, <<8101, 215, 6508, 1214>>>>,
    <<-1035, <<2817, 12471, 2265, 1473>>>>, <<-1036, <<12802, 16116, 115, 1787>>>>, <<-1036, <<9690, 2639, 14329, 1083>>>>,
    <<-1037, <<5119, 15255, 13210, 1314>>>>, <<-1038, <<5281, 7822, 15412, 1594>>>>, <<-1039, <<12783, 2493, 12466, 1934>>>>,
    <<-1039, <<10144, 7721, 8057, 1173>>>>, <<-1040, <<12413, 11238, 8478, 1423>>>>, <<-1041, <<10255, 13263, 13336, 1726>>>>,
    <<-1041, <<1227, 11457, 5990, 1047>>>>, <<-1042, <<7266, 3046, 8499, 1270>>>>, <<-1043, <<15290, 12921, 3557, 1541>>>>,
    <<-1044, <<9191, 7618, 9681, 1869>>>>, <<-1044, <<6709, 9531, 15797, 1133>>>>, <<-1045, <<13725, 790, 9308, 1375>>>>,
    <<-1046, <<15756, 10441, 10624, 1668>>>>, <<-1047, <<7894, 2641, 2833, 2024>>>>, <<-1047, <<11162, 10100, 11844, 1227>>>>,
    <<-1048, <<3783, 12203, 4967, 1489>>>>, <<-1049, <<5736, 6587, 10094, 1806>>>>, <<-1049, <<11945, 15499, 12583, 1095>>>>,
    <<-1050, <<12366, 7177, 3831, 1329>>>>, <<-1051, <<5573, 8636, 7244, 1612>>>>, <<-1052, <<663, 4382, 16240, 1955>>>>,
    <<-1052, <<12719, 15610, 6039, 1186>>>>, <<-1053, <<13119, 10958, 2259, 1439>>>>, <<-1054, <<9542, 8306, 12493, 1745>>>>,
    <<-1054, <<13530, 12757, 14065, 1058>>>>, <<-1055, <<2893, 8448, 7541, 1284>>>>, <<-1056, <<6950, 3753, 2115, 1558>>>>,
    <<-1057, <<1843, 1555, 1739, 1890>>>>, <<-1057, <<14117, 10742, 6673, 1146>>>>, <<-1058, <<5322, 8569, 10852, 1390>>>>,
    <<-1059, <<6101, 2126, 15708, 1686>>>>, <<-1060, <<2492, 1460, 6298, 2046>>>>, <<-1060, <<4059, 15806, 3192, 1241>>>>,
    <<-1061, <<13260, 14973, 10575, 1505>>>>, <<-1062, <<14115, 3302, 7214, 1826>>>>, <<-1062, <<11861, 16100, 12976, 1107>>>>,
    <<-1063, <<1890, 12707, 13429, 1343>>>>, <<-1064, <<4326, 856, 2223, 1630>>>>, <<-1065, <<2619, 4102, 7447, 1977>>>>,
    <<-1065, <<5684, 7890, 6337, 1199>>>>, <<-1066, <<7014, 15500, 15232, 1454>>>>, <<-1067, <<7051, 13723, 15056, 1764>>>>,
    <<-1067, <<6558, 1401, 7823, 1070>>>>, <<-1068, <<10335, 5012, 9090, 1298>>>>, <<-1069, <<347, 2620, 3713, 1575>>>>,
    <<-1070, <<13268, 428, 13869, 1910>>>>, <<-1070, <<12133, 13065, 16170, 1158>>>>, <<-1071, <<4069, 11440, 15110, 1405>>>>,
    <<-1072, <<10369, 8311, 7699, 1705>>>>, <<-1072, <<9043, 2256, 6878, 1034>>>>, <<-1073, <<8612, 5679, 13347, 1254>>>>,
    <<-1074, <<2475, 2595, 2738, 1522>>>>, <<-1074, <<6521, 546, 3949, 923>>>>, <<-1074, <<8736, 14208, 15957, 559>>>>,
    <<-1074, <<14626, 9854, 10508, 339>>>>, <<-1074, <<13148, 13474, 47, 206>>>>, <<-1074, <<8226, 1007, 15517, 124>>>>,
    <<-1074, <<15897, 15831, 12848, 75>>>>, <<-1074, <<10626, 2730, 15818, 45>>>>, <<-1074, <<13025, 2094, 14409, 27>>>>,
    <<-1074, <<15737, 5450, 14905, 16>>>>, <<-1074, <<12312, 14983, 4198, 10>>>>, <<-1074, <<7666, 12348, 3616, 6>>>>,
    <<-1074, <<6367, 1015, 12666, 3>>>>, <<-1074, <<12287, 9009, 4726, 2>>>>, <<-1074, <<10274, 9733, 6357, 1>>>>,
    <<-1074, <<2243, 7767, 13793>>>>, <<-1074, <<2537, 2702, 8366>>>>, <<-1074, <<5865, 5497, 5074>>>>,
    <<-1074, <<7146, 12125, 3077>>>>, <<-1074, <<1741, 12185, 1866>>>>, <<-1074, <<15106, 3887, 1132>>>>,
    <<-1074, <<852, 12069, 686>>>>, <<-1074, <<8251, 8631, 416>>>>, <<-1074, <<15996, 10424, 252>>>>,
    <<-1074, <<7317, 3795, 153>>>>, <<-1074, <<16368, 15395, 92>>>>, <<-1074, <<12971, 6074, 56>>>>,
    <<-1074, <<13989, 3122, 34>>>>, <<-1074, <<10646, 12085, 20>>>>, <<-1074, <<4648, 9470, 12>>>>,
    <<-1074, <<13064, 10304, 7>>>>, <<-1074, <<15792, 10275, 4>>>>, <<-1074, <<4595, 13214, 2>>>>,
    <<-1074, <<10861, 11505, 1>>>>, <<-1074, <<15329, 531, 1>>>>, <<-1074, <<550, 10260>>>>,
    <<-1074, <<409, 6223>>>>, <<-1074, <<7462, 3774>>>>, <<-1074, <<5291, 2289>>>>,
    <<-1074, <<8922, 1388>>>>, <<-1074, <<3192, 842>>>>, <<-1074, <<13386, 510>>>>,
    <<-1074, <<13536, 309>>>>, <<-1074, <<15058, 187>>>>, <<-1074, <<16035, 113>>>>,
    <<-1074, <<2156, 69>>>>, <<-1074, <<15244, 41>>>>, <<-1074, <<7079, 25>>>>,
    <<-1074, <<6969, 15>>>>, <<-1074, <<5832, 9>>>>, <<-1074, <<11054, 5>>>>,
    <<-1074, <<7239, 3>>>>, <<-1074, <<1435, 2>>>>, <<-1074, <<4361, 1>>>>,
    <<-1074, <<12583>>>>, <<-1074, <<7632>>>>, <<-1074, <<4629>>>>,
    <<-1074, <<2808>>>>, <<-1074, <<1703>>>>, <<-1074, <<1033>>>>,
    <<-1074, <<626>>>>, <<-1074, <<380>>>>, <<-1074, <<230>>>>,
    <<-1074, <<140>>>>, <<-1074, <<85>>>>, <<-1074, <<51>>>>,
    <<-1074, <<31>>>>, <<-1074, <<19>>>>, <<-1074, <<11>>>>,
    <<-1074, <<7>>>>, <<-1074, <<4>>>>, <<-1074, <<3>>>>,
    <<-1074, <<2>>>>, <<-1074, <<1>>>>, <<-1074, <<1>>>>
>>

(* ------------------------------------------------------------------------- *)
(* calculate_probabilities and find_max_associations                         *)
(* ------------------------------------------------------------------------- *)

\* np.exp(-0.5 * distance ** 2) for distance = np.sqrt(d2): nan for a negative d2, the
\* entry of exp_table up to d2 = 1490, and 0.0 (underflow) from d2 = 1491 on
FloatExp(d2) ==
    IF d2 < 0 THEN FloatNaN
    ELSE IF d2 >= Len(exp_table) THEN FloatZero
    ELSE [kind |-> "num", m |-> exp_table[d2 + 1][2], x |-> exp_table[d2 + 1][1]]

\* a > b on floats; false when either is nan
\* (faulty variants: "not a <= b", true on nan, for the sensitivity of C5; and "a < b",
\* for the sensitivity of C9)
FloatGt_NotLessEqual(a, b) ==
    a.kind = "nan" \/ b.kind = "nan" \/ FloatLess(b, a)
FloatGt_Reversed(a, b) ==
    FloatLess(a, b)
FloatGt(a, b) ==
    FloatLess(b, a)

\* prob = 1.0, then prob *= np.exp(-0.5 * distance ** 2) for each assigned pair, in order
RECURSIVE hypothesis_probability(_, _, _, _, _, _)
hypothesis_probability(hypothesis, trks, rpts, cov, i, prob) ==
    IF i > Len(hypothesis) THEN prob
    ELSE IF hypothesis[i][2] # -1
    THEN hypothesis_probability(hypothesis, trks, rpts, cov, i + 1,
             FloatMul(prob, FloatExp(mahalanobis_sq(trks[hypothesis[i][1] + 1],
                                                    rpts[hypothesis[i][2] + 1], cov))))
    ELSE hypothesis_probability(hypothesis, trks, rpts, cov, i + 1, prob)

\* The probabilities before "probabilities /= probabilities.sum()".
unnormalized(hyps, trks, rpts, cov) ==
    [h \in 1..Len(hyps) |-> hypothesis_probability(hyps[h], trks, rpts, cov, 1, FloatOne)]
        \o <<>>

\* res += a[i] for i = lo, lo + step, ... up to hi
RECURSIVE SumLoop(_, _, _, _, _)
SumLoop(a, i, step, hi, res) ==
    IF i > hi THEN res ELSE SumLoop(a, i + step, step, hi, FloatAdd(res, a[i]))

\* probabilities.sum() on a[lo + 1 .. lo + n], in numpy's order of additions: one after
\* the other below 8 elements; up to 128 elements, eight interleaved partial sums added
\* pairwise, then the elements after the last full block of 8; above, two halves
RECURSIVE pairwise_sum(_, _, _)
pairwise_sum(a, lo, n) ==
    IF n < 8 THEN SumLoop(a, lo + 1, 1, lo + n, FloatZero)
    ELSE IF n <= 128
    THEN LET full == n - (n % 8)
             r == [j \in 1..8 |-> SumLoop(a, lo + j + 8, 8, lo + full, a[lo + j])] \o <<>>
             res == FloatAdd(FloatAdd(FloatAdd(r[1], r[2]), FloatAdd(r[3], r[4])),
                             FloatAdd(FloatAdd(r[5], r[6]), FloatAdd(r[7], r[8])))
         IN  SumLoop(a, lo + full + 1, 1, lo + n, res)
    ELSE LET n2 == (n \div 2) - ((n \div 2) % 8)
         IN  FloatAdd(pairwise_sum(a, lo, n2), pairwise_sum(a, lo + n2, n - n2))

calculate_probabilities(hyps, trks, rpts, cov) ==
    LET probs == unnormalized(hyps, trks, rpts, cov)
        total == pairwise_sum(probs, 0, Len(probs))
    IN  [h \in 1..Len(probs) |-> FloatDiv(probs[h], total)] \o <<>>

\* The loop over the pairs of one hypothesis; m = <<max_associations, max_probs>>.
RECURSIVE PairLoop(_, _, _, _)
PairLoop(hypothesis, prob, i, m) ==
    IF i > Len(hypothesis) THEN m
    ELSE LET track_idx == hypothesis[i][1]
             report_idx == hypothesis[i][2]
         IN  IF report_idx # -1 /\ FloatGt(prob, m[2][report_idx + 1])
             THEN PairLoop(hypothesis, prob, i + 1,
                           <<[m[1] EXCEPT ![report_idx + 1] = track_idx],
                             [m[2] EXCEPT ![report_idx + 1] = prob]>>)
             ELSE PairLoop(hypothesis, prob, i + 1, m)

\* for hypothesis, prob in zip(hypotheses, probabilities)
RECURSIVE ZipLoop(_, _, _, _)
ZipLoop(hyps, probs, h, m) ==
    IF h > Len(hyps) \/ h > Len(probs) THEN m
    ELSE ZipLoop(hyps, probs, h + 1, PairLoop(hyps[h], probs[h], 1, m))

\* <<max_associations, max_probs>>
find_max_associations(hyps, probs, rpts) ==
    ZipLoop(hyps, probs, 1,
            <<[r \in 1..Len(rpts) |-> -1], [r \in 1..Len(rpts) |-> FloatZero]>>)

-----------------------------------------------------------------------------
(* perform_clustering_hypothesis_association, step by step *)

TrackPoints == {<<0, 0, 0>>, <<3, 0, 0>>}
ReportPoints == {<<1, 0, 0>>, <<2, 0, 0>>, <<10, 0, 0>>, <<45, 0, 0>>, <<37, 11, 0>>}

InitMainIdle ==
    /\ measurements = <<>>
    /\ group_idx = 0
    /\ rep_idx = 0
    /\ track_states = <<>>
    /\ updated_states = <<>>
    /\ kalman_filter = CVFilter
    /\ dt = 0
    /\ calls = <<>>

InitAssoc ==
    /\ pc = "cluster"
    /\ tracks \in SeqsUpTo(TrackPoints, MaxTracks)
    /\ reports \in SeqsUpTo(ReportPoints, MaxReports)
    /\ clusters = <<>>
    /\ rpt = 1
    /\ cl = 0
    /\ hypotheses = <<>>
    /\ probabilities = <<>>
    /\ max_associations = <<>>
    /\ max_probs = <<>>
    /\ InitMainIdle

\* One report of the clustering loop; np.argmin of no distances raises ValueError.
ClusterStep ==
    /\ pc = "cluster"
    /\ rpt <= Len(reports)
    /\ IF Len(tracks) = 0
       THEN pc' = "ValueError" /\ UNCHANGED <<clusters, rpt>>
       ELSE LET distances == [t \in 1..Len(tracks) |-> NormSq(tracks[t], reports[rpt])]
                min_distance_idx == ArgMin(distances)
            IN  /\ clusters' = IF BelowGate(distances[min_distance_idx + 1])
                               THEN Append(clusters, <<min_distance_idx>>)
                               ELSE clusters
                /\ rpt' = rpt + 1
                /\ pc' = pc
    /\ UNCHANGED <<tracks, reports, cl, hypotheses, probabilities, max_associations, max_probs>>
    /\ UNCHANGED mainVars

\* hypotheses = []
ClusterDone ==
    /\ pc = "cluster"
    /\ rpt > Len(reports)
    /\ hypotheses' = <<>>
    /\ cl' = 1
    /\ pc' = "hypotheses"
    /\ UNCHANGED <<tracks, reports, clusters, rpt, probabilities, max_associations, max_probs>>
    /\ UNCHANGED mainVars

\* One cluster of the hypothesis loop.
HypothesisStep ==
    /\ pc = "hypotheses"
    /\ cl <= Len(clusters)
    /\ hypotheses' = hypotheses \o cluster_hypotheses(clusters[cl], Len(reports))
    /\ cl' = cl + 1
    /\ UNCHANGED <<pc, tracks, reports, clusters, rpt, probabilities, max_associations,
                   max_probs>>
    /\ UNCHANGED mainVars

HypothesisDone ==
    /\ pc = "hypotheses"
    /\ cl > Len(clusters)
    /\ pc' = "score"
    /\ UNCHANGED <<tracks, reports>>
    /\ UNCHANGED assocVars
    /\ UNCHANGED mainVars

\* probabilities = calculate_probabilities(hypotheses, tracks, reports, cov_inv)
CalculateProbabilities ==
    /\ pc = "score"
    /\ probabilities' = calculate_probabilities(hypotheses, tracks, reports, cov_inv)
    /\ pc' = "resolve"
    /\ UNCHANGED <<tracks, reports, clusters, rpt, cl, hypotheses, max_associations, max_probs>>
    /\ UNCHANGED mainVars

\* max_associations, max_probs = find_max_associations(hypotheses, probabilities, reports)
FindMaxAssociations ==
    /\ pc = "resolve"
    /\ LET m == find_max_associations(hypotheses, probabilities, reports)
       IN  max_associations' = m[1] /\ max_probs' = m[2]
    /\ pc' = "done"
    /\ UNCHANGED <<tracks, reports, clusters, rpt, cl, hypotheses, probabilities>>
    /\ UNCHANGED mainVars

NextAssoc ==
    \/ ClusterStep
    \/ ClusterDone
    \/ HypothesisStep
    \/ HypothesisDone
    \/ CalculateProbabilities
    \/ FindMaxAssociations

SpecAssoc == InitAssoc /\ [][NextAssoc]_vars

-----------------------------------------------------------------------------
(* calculate_probabilities followed by find_max_associations, called on any  *)
(* list of hypotheses over two tracks and two reports.                       *)

ScoreTracks == <<<<0, 0, 0>>, <<1, 0, 0>>>>
ScoreReportPoints == {<<2, 0, 0>>, <<1, 33, 20>>, <<45, 0, 0>>}

\* Hypotheses of the shape the generator builds: one (track, report or -1) pair per
\* track of a cluster, valid or not.
ScoreClusters == {<<0>>, <<1>>, <<0, 1>>}
ScoreHypotheses ==
    UNION {{[k \in 1..Len(c) |-> <<c[k], a[k]>>] : a \in [1..Len(c) -> -1..1]} :
           c \in ScoreClusters}

InitScore ==
    /\ pc = "score"
    /\ tracks = ScoreTracks
    /\ reports \in [1..2 -> ScoreReportPoints]
    /\ hypotheses \in SeqsUpTo(ScoreHypotheses, MaxHyps)
    /\ clusters = <<>>
    /\ rpt = 0
    /\ cl = 0
    /\ probabilities = <<>>
    /\ max_associations = <<>>
    /\ max_probs = <<>>
    /\ InitMainIdle

NextScore ==
    \/ CalculateProbabilities
    \/ FindMaxAssociations

SpecScore == InitScore /\ [][NextScore]_vars

-----------------------------------------------------------------------------
(* Properties of the association stage (SpecAssoc). *)

Assigned(hypothesis) == {i \in 1..Len(hypothesis) : hypothesis[i][2] # -1}

\* C1: every hypothesis of the hypothesis list assigns a report to at least one
\* track and assigns no report index to two different tracks (-1 entries exempt).
C1_HypothesesValid ==
    \A h \in 1..Len(hypotheses) :
        /\ Assigned(hypotheses[h]) # {}
        /\ \A i, j \in Assigned(hypotheses[h]) :
               i # j => hypotheses[h][i][2] # hypotheses[h][j][2]

\* C1 witness: the stage has finished with several accepted hypotheses.
C1_Witness == pc = "done" /\ Len(hypotheses) >= 2

\* All assignments of "unassigned or one of num_reports reports" to the tracks of a
\* cluster with at least one assigned track and no report used twice.
ExpectedHypotheses(cluster, num_reports) ==
    {h \in {[k \in 1..Len(cluster) |-> <<cluster[k], a[k]>>] :
                a \in [1..Len(cluster) -> -1..(num_reports - 1)]} :
        /\ Assigned(h) # {}
        /\ \A i, j \in Assigned(h) : i # j => h[i][2] # h[j][2]}

\* C2: once the hypothesis loop has ended, the accepted hypotheses are exactly the
\* admissible assignments of every cluster, whatever the cluster's track indices.
C2_AllAssignmentsEnumerated ==
    pc = "score" =>
        {hypotheses[h] : h \in 1..Len(hypotheses)} =
            UNION {ExpectedHypotheses(clusters[c], Len(reports)) : c \in 1..Len(clusters)}

\* C3: a step of the clustering loop appends a cluster only for a (track, report)
\* pair whose squared distance is below the gate value 7.815.
C3_GateOnSquaredDistance ==
    [][Len(clusters') > Len(clusters) =>
          mahalanobis_sq(tracks[clusters'[Len(clusters')][1] + 1], reports[rpt], cov_inv)
              * 1000 < chi2_threshold_milli]_vars

\* A report at or beyond the gate threshold from every track.
FarFromEveryTrack(r) ==
    \A t \in 1..Len(tracks) :
        NormSq(tracks[t], reports[r]) * 1000000
            >= chi2_threshold_milli * chi2_threshold_milli

\* C4: a report farther than the gate from every track is resolved to no track (-1)
\* with probability 0.
C4_FarReportUnassociated ==
    pc = "done" =>
        \A r \in 1..Len(reports) :
            FarFromEveryTrack(r) =>
                max_associations[r] = -1 /\ max_probs[r] = FloatZero

-----------------------------------------------------------------------------
(* Properties of scoring and resolution (SpecScore). *)

AllUnnormalizedZero ==
    \A h \in 1..Len(hypotheses) :
        unnormalized(hypotheses, tracks, reports, cov_inv)[h] = FloatZero

\* C5: when every hypothesis has unnormalized probability exactly zero (or there is
\* no hypothesis), scoring and resolution run to their end (the division yields nan
\* values, no fault) and every report is resolved to track -1 with confidence 0.
C5_ZeroSumResolvesToNone ==
    AllUnnormalizedZero =>
        /\ pc \in {"resolve", "done"} =>
               \A h \in 1..Len(probabilities) : probabilities[h] = FloatNaN
        /\ pc = "done" =>
               \A r \in 1..Len(reports) :
                   max_associations[r] = -1 /\ max_probs[r] = FloatZero

\* C5 witness: resolution has ended for a non-empty list of zero-probability hypotheses.
C5_Witness == pc = "done" /\ Len(hypotheses) >= 2 /\ AllUnnormalizedZero

\* The (hypothesis, pair) places that assign report r (0-based).
Assigning(r) ==
    {hi \in (1..Len(hypotheses)) \X (1..2) :
        /\ hi[2] <= Len(hypotheses[hi[1]])
        /\ hypotheses[hi[1]][hi[2]][2] = r}

\* Probability a is strictly larger than probability b (neither is nan).
Larger(a, b) ==
    /\ a.kind = "num"
    /\ b.kind = "zero" \/ (b.kind = "num" /\ FloatLess(b, a))

\* A hypothesis without its unassigned (-1) pairs.
WithoutUnassigned(hypothesis) == SelectSeq(hypothesis, LAMBDA pr : pr[2] # -1)

\* C9: find_max_associations returns one record per report; a report assigned by a
\* hypothesis of positive probability gets the largest probability among the
\* hypotheses assigning it and a track one of those assigns it to; a report no
\* hypothesis assigns gets (-1, 0); unassigned entries change nothing.
C9_MaxAssociation ==
    pc = "done" =>
        /\ Len(max_associations) = Len(reports)
        /\ Len(max_probs) = Len(reports)
        /\ \A r \in 0..(Len(reports) - 1) :
               /\ (\E hi \in Assigning(r) : probabilities[hi[1]].kind = "num") =>
                      /\ \A hi \in Assigning(r) :
                             ~Larger(probabilities[hi[1]], max_probs[r + 1])
                      /\ \E hi \in Assigning(r) :
                             /\ probabilities[hi[1]] = max_probs[r + 1]
                             /\ hypotheses[hi[1]][hi[2]][1] = max_associations[r + 1]
               /\ Assigning(r) = {} =>
                      max_associations[r + 1] = -1 /\ max_probs[r + 1] = FloatZero
        /\ find_max_associations(
               [h \in 1..Len(hypotheses) |-> WithoutUnassigned(hypotheses[h])],
               probabilities, reports) = <<max_associations, max_probs>>

\* C9 witness: a report assigned by two hypotheses of different positive
\* probabilities, one of them also holding an unassigned entry.
C9_Witness ==
    /\ pc = "done"
    /\ Len(hypotheses) = 2
    /\ \E hi, hj \in Assigning(0) :
           /\ Larger(probabilities[hi[1]], probabilities[hj[1]])
           /\ probabilities[hj[1]].kind = "num"
           /\ Assigned(hypotheses[hj[1]]) # 1..Len(hypotheses[hj[1]])
    /\ max_associations[1] # -1

-----------------------------------------------------------------------------
(* Properties of main (SpecMain). *)

\* |a - 1| < 1/2 for a rational a
AboutOne(a) == RLess(<<1, 2>>, a) /\ RLess(a, <<3, 2>>)

\* C6: predict_step computes dt as the time of the current report minus the time of
\* the previous report of the group; for the reports (0,0,0) at 0 and (0,10,0) at 10
\* the first emitted state is zero and the state after the second report has vy
\* about 1.
C6_VelocityFromTimeStep ==
    /\ pc = "update" => dt = CurrentReport[4] - tracks[group_idx][rep_idx - 1][4]
    /\ (measurements = <<<<0, 0, 0, 0>>, <<0, 10, 0, 10>>>> /\ pc = "emit") =>
           IF rep_idx = 1
           THEN kalman_filter.Sf = Zeros(6, 1)
           ELSE AboutOne(kalman_filter.Sf[5][1])

\* The inner loop of main on one group, started on a fresh CVFilter:
\* <<the filter at the end, the states emitted>>.
RECURSIVE RunGroup(_, _, _, _)
RunGroup(group, k, kf, states) ==
    IF k > Len(group) THEN <<kf, states>>
    ELSE LET m == group[k]
             kf2 == IF Len(states) = 0
                    THEN initialize_filter_state(kf, m[1], m[2], m[3], 0, 0, 0, m[4])
                    ELSE update_step(predict_step(
                             initialize_measurement_for_filtering(kf, m[1], m[2], m[3], m[4]),
                             m[4]))
         IN  RunGroup(group, k + 1, kf2, Append(states, kf2.Sf))

\* C7: the state and covariance a group starts with, and the states emitted for it,
\* are those of the same group processed alone by a fresh filter.
C7_GroupIndependentOfHistory ==
    /\ (pc = "emit" /\ rep_idx = 1) =>
           LET alone == RunGroup(SubSeq(tracks[group_idx], 1, 1), 1, CVFilter, <<>>)[1]
           IN  kalman_filter.Sf = alone.Sf /\ kalman_filter.Pf = alone.Pf
    /\ (pc = "report" /\ rep_idx > Len(tracks[group_idx])) =>
           track_states = RunGroup(tracks[group_idx], 1, CVFilter, <<>>)[2]

\* C8: the groups partition the measurements: every measurement is in exactly one
\* group, no group is empty, a group starts with its seed (the first measurement no
\* earlier group took), its other members are less than 50 from the seed in time,
\* and every measurement within 50 of the seed that no earlier group took is in it.
C8_GroupsPartition ==
    pc \notin {"start", "returned"} =>
        LET gi == group_indices(measurements)
            members(g) == {gi[g][k] : k \in 1..Len(gi[g])}
            earlier(g) == UNION {members(q) : q \in 1..(g - 1)}
            free(g) == (1..Len(measurements)) \ earlier(g)
        IN  /\ Len(tracks) = Len(gi)
            /\ \A g \in 1..Len(gi) :
                   /\ Len(tracks[g]) = Len(gi[g])
                   /\ \A k \in 1..Len(gi[g]) : tracks[g][k] = measurements[gi[g][k]]
            /\ \A i \in 1..Len(measurements) :
                   Cardinality({gk \in (1..Len(gi)) \X (1..Len(measurements)) :
                                   gk[2] <= Len(gi[gk[1]]) /\ gi[gk[1]][gk[2]] = i}) = 1
            /\ \A g \in 1..Len(gi) :
                   /\ Len(gi[g]) > 0
                   /\ gi[g][1] \in free(g)
                   /\ \A j \in free(g) : gi[g][1] <= j
                   /\ \A k \in 2..Len(gi[g]) :
                          Abs(tracks[g][k][4] - tracks[g][1][4]) < 50
                   /\ \A j \in free(g) :
                          Abs(measurements[j][4] - measurements[gi[g][1]][4]) < 50
                              => j \in members(g)

\* C8 witness: the first group took the first and the third measurement, the second
\* measurement seeds a group of its own.
C8_Witness ==
    /\ pc = "group"
    /\ Len(measurements) = 3
    /\ group_indices(measurements) = <<<<1, 3>>, <<2>>>>
    /\ Len(tracks) = 2

\* C10: the first report of a group only initializes the filter; every later report
\* causes initialize_measurement_for_filtering, one predict_step and one update_step
\* right after it; update_step never runs without predict_step directly before it;
\* one state is emitted per report.
C10_StateMachine ==
    /\ pc \in {"report", "predict", "update", "emit"} => Len(track_states) = rep_idx - 1
    /\ pc = "emit" =>
           calls = IF rep_idx = 1
                   THEN <<"initialize_filter_state">>
                   ELSE <<"initialize_measurement_for_filtering", "predict_step",
                          "update_step">>
    /\ \A i \in 1..Len(calls) :
           calls[i] = "update_step" => i > 1 /\ calls[i - 1] = "predict_step"
    /\ \A g \in 1..Len(updated_states) : Len(updated_states[g]) = Len(tracks[g])

\* C10 witness: the second report of the second group has been predicted and updated.
C10_Witness ==
    /\ pc = "emit"
    /\ group_idx = 2
    /\ rep_idx = 2
    /\ calls = <<"initialize_measurement_for_filtering", "predict_step", "update_step">>

=============================================================================
